---- MODULE Spec2Model ----
(***************************************************************************)
(* Model of the quote cache of ibi-portfolio-manager                       *)
(* (src/src/stockPriceService.ts) and of the detail view that drives it    *)
(* (src/unnamed/part_000, the StockDetail component App.tsx renders).      *)
(*                                                                         *)
(* Time is Date.now() in milliseconds.  A call of fetchStockPrice or       *)
(* fetchHistoricalData runs in two steps, as the JavaScript event loop     *)
(* runs it: the synchronous part up to `await fetch(url)` (the two cache   *)
(* look-ups), and the continuation that runs when the response arrives.    *)
(* Provider payloads carry finite decimal numbers, for which               *)
(* JSON.stringify / JSON.parse is exact.                                   *)
(***************************************************************************)
EXTENDS Integers, Sequences, FiniteSets, TLC

VARIABLES
    now,             \* Date.now()
    cache,           \* module-level Map `cache` (price), per symbol
    historicalCache, \* module-level Map `historicalCache`, per symbol
    localStorage,    \* window.localStorage, per key
    storageMode,     \* "ok" | "full" (setItem throws) | "denied" (both throw)
    inflight,        \* calls waiting for their network response
    nextId,          \* next call id
    lastCall,        \* what the synchronous part of a call did, in the state
                     \* right after it (NoCall in every other state)
    lastDone,        \* what a network continuation did, in the state right
                     \* after it (NoDone in every other state)
    netOk,           \* per symbol: the last successful price fetch, while no
                     \* other write touched the symbol's entries
    load,            \* detail view: the running loadData
    view,            \* detail view: the React state
    symbols,         \* fetchMultipleStockPrices: the argument
    batch,           \* fetchMultipleStockPrices: loop state
    results,         \* fetchMultipleStockPrices: the `results` map
    attempts,        \* per position of symbols: calls of fetchStockPrice made
    got,             \* per position of symbols: what its fetchStockPrice gave
    trace,           \* the batch's group starts and waits, in order
    focus,           \* cache specification: the function under call
    raw,             \* the "Time Series (Daily)" entries the provider answers
                     \* a history request with, in response order
    columns,         \* SortableTable: the `columns` prop
    tableData,       \* SortableTable: the `data` prop
    sortColumn,      \* SortableTable state
    sortDirection,   \* SortableTable state
    filters,         \* SortableTable state
    showFilters,     \* SortableTable state
    engine,          \* the algorithm of the JavaScript engine's Array.prototype.sort
    lastClick,       \* the column handleSort was called with, in the state
                     \* right after the call ("none" in every other state)
    toggles,         \* the columns handleSort was called with since the table
                     \* was last unsorted (the first three)
    queried,         \* table query: what was computed last
    rows,            \* App state `rows`: the ledger
    selectedTicker,  \* App state `selectedTicker`
    screen           \* the derived views as rendered last

cacheVars == <<cache, historicalCache, localStorage>>
tableVars == <<columns, tableData, sortColumn, sortDirection, filters, showFilters,
               engine, lastClick, toggles, queried>>
ledgerVars == <<rows, selectedTicker, screen>>
detailVars == <<load, view>>
batchVars == <<symbols, batch, results, attempts, got, trace>>

vars == <<now, cache, historicalCache, localStorage, storageMode,
          inflight, nextId, lastCall, lastDone, netOk, load, view,
          symbols, batch, results, attempts, got, trace, focus, raw, tableVars, ledgerVars>>

----------------------------------------------------------------------------
(* Bounds of the model *)

MaxCalls == 2
MaxLoads == 1
MaxSymbols == 12
MaxPrice == 2

(* Program constants *)

Minute == 60 * 1000
CACHE_DURATION == 5 * 60 * 1000
LOCAL_STORAGE_CACHE_DURATION == 24 * 60 * 60 * 1000

\* Security identifiers.
SymbolNames == <<"AAPL", "MSFT", "NVDA", "GOOG", "AMZN", "META", "TSLA", "INTC",
                "ORCL", "IBM", "AMD", "CSCO", "ADBE", "NFLX">>
Symbols == {SymbolNames[1]}
Kinds == {"price", "history"}

\* The instants the model's clock visits: relative to an entry captured at
\* 0 they lie on both sides of each freshness window and on the boundaries
\* themselves (4 min, 5 min, 24 h - 1 min, 24 h).
Instants == {0, 4 * Minute, 5 * Minute, LOCAL_STORAGE_CACHE_DURATION - Minute,
             LOCAL_STORAGE_CACHE_DURATION}

----------------------------------------------------------------------------
(* Values *)

Null == [kind |-> "null"]

StockPrice(symbol, q) ==
    [kind |-> "quote", symbol |-> symbol, price |-> q.price,
     change |-> q.change, changePercent |-> q.changePercent]

\* The "Global Quote" payloads the provider answers with.
GlobalQuote(p) == [price |-> p, change |-> p - 1, changePercent |-> (p - 1) * 100]

NoEntry == [kind |-> "absent"]
Entry(data, timestamp) == [kind |-> "entry", data |-> data, timestamp |-> timestamp]

\* A localStorage item: absent, a string JSON.parse rejects, or the JSON text
\* of an envelope {data, timestamp}.
NoItem == [kind |-> "absent"]
CorruptItem == [kind |-> "corrupt"]
JSONstringify(envelope) == [kind |-> "json", text |-> <<envelope.data, envelope.timestamp>>]
JSONparse(item) == Entry(item.text[1], item.text[2])

priceKey(symbol) == <<"stock_price_", symbol>>
historyKey(symbol) == <<"stock_history_", symbol>>
Keys == {priceKey(s) : s \in Symbols} \cup {historyKey(s) : s \in Symbols}

----------------------------------------------------------------------------
(* localStorage helpers *)

Throw == [kind |-> "throw"]

\* localStorage.getItem(key); throws while access to the storage is denied.
getItem(key) == IF storageMode = "denied" THEN Throw ELSE localStorage[key]

\* JSON.parse(item); throws on text that is not JSON.
JSONparseOrThrow(item) == IF item.kind = "corrupt" THEN Throw ELSE JSONparse(item)

\* The body of getFromLocalStorage's try block.
getFromLocalStorageTry(key) ==
    LET item == getItem(key) IN
    IF item.kind = "throw" THEN Throw
    ELSE IF item.kind = "absent" THEN Null         \* if (!item) return null
    ELSE JSONparseOrThrow(item)

\* Mutant: getFromLocalStorage without its try/catch.
getFromLocalStorageNoCatch(key) == getFromLocalStorageTry(key)

getFromLocalStorage(key) ==
    LET r == getFromLocalStorageTry(key) IN
    IF r.kind = "throw" THEN Null ELSE r           \* catch { return null }

\* The store after saveToLocalStorage(key, data, timestamp).
saveToLocalStorage(key, data, timestamp) ==
    IF storageMode = "ok"
    THEN [localStorage EXCEPT ![key] = JSONstringify([data |-> data, timestamp |-> timestamp])]
    ELSE localStorage                              \* setItem throws: catch, warn

\* What a look-up finds under a key (read by the properties only).
itemState(key) == IF storageMode = "denied" THEN "unreadable" ELSE localStorage[key].kind

----------------------------------------------------------------------------
(* fetchStockPrice *)

\* Mutant: the persistent entry is still served at exactly 24 hours.
fetchStockPriceLookupInclusive(mem, symbol) ==
    LET cached == mem[symbol] IN
    IF cached.kind = "entry" /\ now - cached.timestamp < CACHE_DURATION
    THEN [via |-> "memory", value |-> cached.data, mem |-> mem]
    ELSE LET localCached == getFromLocalStorage(priceKey(symbol)) IN
         IF localCached.kind = "entry"
            /\ now - localCached.timestamp <= LOCAL_STORAGE_CACHE_DURATION
         THEN [via |-> "local", value |-> localCached.data,
               mem |-> [mem EXCEPT ![symbol] = localCached]]
         ELSE [via |-> "network", value |-> Null, mem |-> mem]

\* Mutant: the back-filled entry is stamped with the time of the call.
fetchStockPriceLookupRefresh(mem, symbol) ==
    LET cached == mem[symbol] IN
    IF cached.kind = "entry" /\ now - cached.timestamp < CACHE_DURATION
    THEN [via |-> "memory", value |-> cached.data, mem |-> mem]
    ELSE LET localCached == getFromLocalStorage(priceKey(symbol)) IN
         IF localCached.kind = "entry"
            /\ now - localCached.timestamp < LOCAL_STORAGE_CACHE_DURATION
         THEN [via |-> "local", value |-> localCached.data,
               mem |-> [mem EXCEPT ![symbol] = Entry(localCached.data, now)]]
         ELSE [via |-> "network", value |-> Null, mem |-> mem]

\* Lines 48-62: the look-ups, on the transient map `mem`.  The result names
\* where the answer comes from and the transient map afterwards.
fetchStockPriceLookup(mem, symbol) ==
    LET cached == mem[symbol] IN
    IF cached.kind = "entry" /\ now - cached.timestamp < CACHE_DURATION
    THEN [via |-> "memory", value |-> cached.data, mem |-> mem]
    ELSE LET localCached == getFromLocalStorage(priceKey(symbol)) IN
         IF localCached.kind = "throw"
         THEN [via |-> "rejected", value |-> Null, mem |-> mem]
         ELSE IF localCached.kind = "entry"
                 /\ now - localCached.timestamp < LOCAL_STORAGE_CACHE_DURATION
         THEN [via |-> "local", value |-> localCached.data,
               mem |-> [mem EXCEPT ![symbol] = localCached]]
         ELSE [via |-> "network", value |-> Null, mem |-> mem]

\* The provider's answers to a GLOBAL_QUOTE request.
\* "transport": fetch rejects; "http": a status that is not OK; "note" and
\* "information": the two rate notices; "noquote": no "Global Quote", or one
\* without "05. price".
PriceFailKinds == {"transport", "http", "note", "information", "noquote"}
RateLimitKinds == {"note", "information"}
PriceResponses ==
    {[kind |-> k, p |-> 0] : k \in PriceFailKinds}
    \cup {[kind |-> "ok", p |-> p] : p \in 1..MaxPrice}

\* Lines 64-107: the try block, from the response on.
fetchStockPriceTry(symbol, resp) ==
    IF resp.kind \in {"transport", "http"}
    THEN [end |-> "throw", error |-> "Error", value |-> Null, save |-> FALSE]
    ELSE IF resp.kind \in RateLimitKinds
    THEN [end |-> "throw", error |-> "RateLimitError", value |-> Null, save |-> FALSE]
    ELSE IF resp.kind = "noquote"
    THEN [end |-> "return", error |-> "none", value |-> Null, save |-> FALSE]
    ELSE [end |-> "return", error |-> "none",
          value |-> StockPrice(symbol, GlobalQuote(resp.p)), save |-> TRUE]

\* Mutant: the catch block lets a RateLimitError through.
fetchStockPriceCatchRethrow(error) ==
    IF error = "RateLimitError"
    THEN [status |-> "rejected", value |-> Null, reason |-> error]
    ELSE [status |-> "fulfilled", value |-> Null, reason |-> "none"]

\* Lines 108-111: catch (error) { console.error(...); return null; }
fetchStockPriceCatch(error) ==
    [status |-> "fulfilled", value |-> Null, reason |-> "none"]

\* How the promise fetchStockPrice returned settles.
fetchStockPriceSettle(symbol, resp) ==
    LET t == fetchStockPriceTry(symbol, resp) IN
    IF t.end = "throw" THEN fetchStockPriceCatch(t.error)
    ELSE [status |-> "fulfilled", value |-> t.value, reason |-> "none"]

\* Mutant: the transient store is written whatever the response was.
fetchStockPriceCacheSetAlways(c, resp) ==
    [cache EXCEPT ![c.symbol] =
        Entry(fetchStockPriceTry(c.symbol, resp).value, c.now)]

\* Mutant: the first entry written stays.
fetchStockPriceCacheSetIfAbsent(c, resp) ==
    LET t == fetchStockPriceTry(c.symbol, resp) IN
    IF t.save /\ cache[c.symbol].kind # "entry"
    THEN [cache EXCEPT ![c.symbol] = Entry(t.value, c.now)]
    ELSE cache

\* Lines 103-105: the two stores after the continuation of call c.
fetchStockPriceCacheSet(c, resp) ==
    LET t == fetchStockPriceTry(c.symbol, resp) IN
    IF t.save THEN [cache EXCEPT ![c.symbol] = Entry(t.value, c.now)] ELSE cache

fetchStockPriceSave(c, resp) ==
    LET t == fetchStockPriceTry(c.symbol, resp) IN
    IF t.save THEN saveToLocalStorage(priceKey(c.symbol), t.value, c.now)
    ELSE localStorage

----------------------------------------------------------------------------
(* fetchHistoricalData *)

HISTORY_POINTS == 90

\* A date key of "Time Series (Daily)" is the text YYYY-MM-DD, held as
\* <<year, month, day>>.  new Date(text).getTime() is UTC midnight of that
\* day: 86,400,000 ms times the days since 1970-01-01 in the proleptic
\* Gregorian calendar, computed here.
DaysFromCivil(date) ==
    LET y == IF date[2] <= 2 THEN date[1] - 1 ELSE date[1]
        era == y \div 400
        yoe == y - era * 400
        mp == IF date[2] > 2 THEN date[2] - 3 ELSE date[2] + 9
        doy == (153 * mp + 2) \div 5 + date[3] - 1
        doe == yoe * 365 + yoe \div 4 - yoe \div 100 + doy
    IN era * 146097 + doe - 719468

\* parseFloat of a decimal text (the provider's numbers, here in cents).
parseFloat(text) == text.digits

\* Lines 191-195: one entry of Object.entries(timeSeries) as a data point.
toPoint(entry) ==
    [date |-> entry.date, close |-> parseFloat(entry.close),
     volume |-> parseFloat(entry.volume)]

\* Line 196: new Date(a.date).getTime(), in days instead of milliseconds
\* (a double holds the milliseconds exactly, the model checker's 32-bit
\* integers do not; the comparator's sign is the same).
getTime(point) == DaysFromCivil(point.date)

\* Line 196: the comparator of the sort, on the two times.
compareByDate(ta, tb) == ta - tb

\* Array.prototype.sort(compare): a stable sort.  The element at index j
\* ends up after those that compare smaller and after the equal ones that
\* were before it.
sortByDate(s) ==
    LET t == [j \in 1..Len(s) |-> getTime(s[j])] \o <<>>
        rank == [j \in 1..Len(s) |->
                   1 + Cardinality({k \in 1..Len(s) :
                                      \/ compareByDate(t[k], t[j]) < 0
                                      \/ compareByDate(t[k], t[j]) = 0 /\ k < j})] \o <<>>
    IN [i \in 1..Len(s) |-> s[CHOOSE j \in 1..Len(s) : rank[j] = i]] \o <<>>

\* Mutant: .slice(0, 90)
sliceFirst(s) ==
    IF Len(s) > HISTORY_POINTS THEN SubSeq(s, 1, HISTORY_POINTS) ELSE s

\* Line 197: .slice(-90)
sliceLast(s) ==
    IF Len(s) > HISTORY_POINTS
    THEN SubSeq(s, Len(s) - HISTORY_POINTS + 1, Len(s))
    ELSE s

\* Lines 190-197.
normalizeSeries(timeSeries) ==
    sliceLast(sortByDate([i \in 1..Len(timeSeries) |-> toPoint(timeSeries[i])]))

\* Lines 150-164: the look-ups, on the transient map `mem`.
fetchHistoricalDataLookup(mem, symbol) ==
    LET cached == mem[symbol] IN
    IF cached.kind = "entry" /\ now - cached.timestamp < CACHE_DURATION
    THEN [via |-> "memory", value |-> cached.data, mem |-> mem]
    ELSE LET localCached == getFromLocalStorage(historyKey(symbol)) IN
         IF localCached.kind = "throw"
         THEN [via |-> "rejected", value |-> <<>>, mem |-> mem]
         ELSE IF localCached.kind = "entry"
                 /\ now - localCached.timestamp < LOCAL_STORAGE_CACHE_DURATION
         THEN [via |-> "local", value |-> localCached.data,
               mem |-> [mem EXCEPT ![symbol] = localCached]]
         ELSE [via |-> "network", value |-> <<>>, mem |-> mem]

\* The provider's answers to a TIME_SERIES_DAILY request.
HistoryFailKinds == {"transport", "http", "note", "information", "notimeseries"}
HistoryResponses ==
    {[kind |-> k, series |-> <<>>] : k \in HistoryFailKinds}
    \cup {[kind |-> "ok", series |-> raw]}

\* Lines 166-203: the try block, from the response on.
fetchHistoricalDataTry(resp) ==
    IF resp.kind \in {"transport", "http"}
    THEN [end |-> "throw", error |-> "Error", value |-> <<>>, save |-> FALSE]
    ELSE IF resp.kind \in RateLimitKinds
    THEN [end |-> "throw", error |-> "RateLimitError", value |-> <<>>, save |-> FALSE]
    ELSE IF resp.kind = "notimeseries"
    THEN [end |-> "return", error |-> "none", value |-> <<>>, save |-> FALSE]
    ELSE [end |-> "return", error |-> "none",
          value |-> normalizeSeries(resp.series), save |-> TRUE]

\* Lines 204-207: catch (error) { console.error(...); return []; }
fetchHistoricalDataCatch(error) ==
    [status |-> "fulfilled", value |-> <<>>, reason |-> "none"]

fetchHistoricalDataSettle(resp) ==
    LET t == fetchHistoricalDataTry(resp) IN
    IF t.end = "throw" THEN fetchHistoricalDataCatch(t.error)
    ELSE [status |-> "fulfilled", value |-> t.value, reason |-> "none"]

\* Lines 199-201: the two stores after the continuation of call c.
fetchHistoricalDataCacheSet(c, resp) ==
    LET t == fetchHistoricalDataTry(resp) IN
    IF t.save THEN [historicalCache EXCEPT ![c.symbol] = Entry(t.value, c.now)]
    ELSE historicalCache

fetchHistoricalDataSave(c, resp) ==
    LET t == fetchHistoricalDataTry(resp) IN
    IF t.save THEN saveToLocalStorage(historyKey(c.symbol), t.value, c.now)
    ELSE localStorage

----------------------------------------------------------------------------
(* The provider's time series (inputs) *)

MaxDays == 92

MonthDays(y, m, n) == [d \in 1..n |-> <<y, m, d>>]

\* Trading dates on offer: 2023-12-01 .. 2024-04-30 (a year end and a leap day).
Calendar ==
    MonthDays(2023, 12, 31) \o MonthDays(2024, 1, 31) \o MonthDays(2024, 2, 29)
    \o MonthDays(2024, 3, 31) \o MonthDays(2024, 4, 30)

\* The provider's entry for the k-th date of the calendar.
RawEntry(k) ==
    [date |-> Calendar[k], close |-> [digits |-> 10000 + k],
     volume |-> [digits |-> 500 + 2 * k]]

SeriesOf(idx) == [i \in 1..Len(idx) |-> RawEntry(idx[i])]

Ascending(n) == [i \in 1..n |-> i]
Descending(n) == [i \in 1..n |-> n + 1 - i]
Rotated(n) == [i \in 1..n |-> ((i + 44) % n) + 1]

\* Dates around the month, year and leap-day boundaries, in every order.
SmallIdx == {1, 31, 32, 91, 92}
SmallOrders ==
    {<<>>} \cup {<<a>> : a \in SmallIdx}
    \cup {s \in [1..2 -> SmallIdx] : s[1] # s[2]}
    \cup {s \in [1..3 -> SmallIdx] : s[1] # s[2] /\ s[1] # s[3] /\ s[2] # s[3]}

\* Long series, shorter and longer than the 90 points kept.
LongOrders ==
    UNION {{Ascending(n), Descending(n), Rotated(n)} : n \in (HISTORY_POINTS - 1)..MaxDays}

HistoryInputs == {SeriesOf(idx) : idx \in SmallOrders \cup LongOrders}

\* The series of the cache specifications: newest first, as the provider
\* lists it.
CacheInputs == {SeriesOf(<<32, 31, 1>>)}

----------------------------------------------------------------------------
(* Initial state: the module has just been loaded *)

EmptyCache == [s \in Symbols |-> NoEntry]

NoCall == [id |-> 0, kind |-> "none", symbol |-> "", t |-> 0, via |-> "none",
           value |-> Null,
           item |-> "absent", mode |-> "ok",
           ok |-> [valid |-> FALSE, T |-> 0, data |-> Null, persisted |-> FALSE]]
NoDone == [id |-> 0, kind |-> "none"]
NoFetch == [valid |-> FALSE, T |-> 0, data |-> Null, persisted |-> FALSE]

\* React state of the detail view (useState initial values, lines 13-18).
InitialView ==
    [price |-> Null, historicalData |-> <<>>, isPriceLoading |-> TRUE,
     isHistoryLoading |-> TRUE, priceError |-> "null", historyError |-> "null"]

Pending == [status |-> "pending"]
IdleLoad == [phase |-> "idle", ticker |-> "", price |-> Pending, history |-> Pending,
             priceResp |-> "none", historyResp |-> "none", priceItem |-> "absent"]
IdleBatch == [phase |-> "idle", i |-> 0]

\* What an earlier session can have left under a key: nothing, text that is
\* not JSON, or an entry captured at time 0.
LeftOverPrice(symbol) ==
    {NoItem, CorruptItem,
     JSONstringify([data |-> StockPrice(symbol, GlobalQuote(1)), timestamp |-> 0])}
LeftOverHistory ==
    {NoItem, CorruptItem,
     JSONstringify([data |-> normalizeSeries(SeriesOf(<<2, 1>>)), timestamp |-> 0])}

InitStores ==
    /\ now = 0
    /\ cache = EmptyCache
    /\ historicalCache = EmptyCache
    /\ localStorage \in [Keys -> {NoItem, CorruptItem}]
    /\ storageMode = "ok"
    /\ inflight = {}
    /\ nextId = 1
    /\ lastCall = NoCall
    /\ lastDone = NoDone
    /\ netOk = [s \in Symbols |-> NoFetch]

InitIdle ==
    /\ load = IdleLoad
    /\ view = InitialView
    /\ symbols = <<>>
    /\ batch = IdleBatch
    /\ results = {}
    /\ attempts = <<>>
    /\ got = <<>>
    /\ trace = <<>>

\* No table is mounted.
InitNoTable ==
    /\ columns = <<>>
    /\ tableData = <<>>
    /\ sortColumn = "null"
    /\ sortDirection = "null"
    /\ filters = <<>>
    /\ showFilters = FALSE
    /\ engine = "none"
    /\ lastClick = "none"
    /\ toggles = <<>>
    /\ queried = [phase |-> "idle"]

\* No file has been uploaded.
InitNoLedger ==
    /\ rows = <<>>
    /\ selectedTicker = "null"
    /\ screen = [tab |-> "none"]

\* The quote cache is not in use.
InitNoCache ==
    /\ now = 0
    /\ cache = EmptyCache
    /\ historicalCache = EmptyCache
    /\ localStorage = [k \in Keys |-> NoItem]
    /\ storageMode = "ok"
    /\ inflight = {}
    /\ nextId = 1
    /\ lastCall = NoCall
    /\ lastDone = NoDone
    /\ netOk = [s \in Symbols |-> NoFetch]
    /\ raw = <<>>

----------------------------------------------------------------------------
(* Calls of fetchStockPrice and fetchHistoricalData *)

NewCall(id, kind, symbol, owner) ==
    [id |-> id, kind |-> kind, symbol |-> symbol, now |-> now, owner |-> owner]

\* What the synchronous part of a call did (read by the properties).
CallRecord(id, kind, symbol, r, key) ==
    [id |-> id, kind |-> kind, symbol |-> symbol, t |-> now, via |-> r.via,
     value |-> r.value,
     item |-> itemState(key), mode |-> storageMode, ok |-> netOk[symbol]]

\* fetchStockPrice(symbol), up to its first await.
CallPrice(symbol) ==
    /\ nextId <= MaxCalls
    /\ focus = "price"
    /\ LET r == fetchStockPriceLookup(cache, symbol)
           c == NewCall(nextId, "price", symbol, "api")
       IN /\ cache' = r.mem
          /\ lastCall' = CallRecord(nextId, "price", symbol, r, priceKey(symbol))
          /\ inflight' = IF r.via = "network" THEN inflight \cup {c} ELSE inflight
    /\ nextId' = nextId + 1
    /\ UNCHANGED <<now, historicalCache, localStorage, storageMode,
                   netOk, detailVars, batchVars, focus, raw, tableVars, ledgerVars>>
    /\ lastDone' = NoDone

\* fetchHistoricalData(symbol), up to its first await.
CallHistory(symbol) ==
    /\ nextId <= MaxCalls
    /\ focus = "history"
    /\ LET r == fetchHistoricalDataLookup(historicalCache, symbol)
           c == NewCall(nextId, "history", symbol, "api")
       IN /\ historicalCache' = r.mem
          /\ lastCall' = CallRecord(nextId, "history", symbol, r, historyKey(symbol))
          /\ inflight' = IF r.via = "network" THEN inflight \cup {c} ELSE inflight
    /\ nextId' = nextId + 1
    /\ UNCHANGED <<now, cache, localStorage, storageMode,
                   netOk, detailVars, batchVars, focus, raw, tableVars, ledgerVars>>
    /\ lastDone' = NoDone

\* What a continuation did (read by the properties): the response, how the
\* promise settled, and the call's entries in both stores before and after.
DoneRecord(c, respKind, settled, key, memBefore, memAfter, itemAfter) ==
    [id |-> c.id, kind |-> c.kind, symbol |-> c.symbol, t |-> c.now,
     owner |-> c.owner, resp |-> respKind, settled |-> settled, mode |-> storageMode,
     memBefore |-> memBefore, memAfter |-> memAfter,
     itemBefore |-> localStorage[key], itemAfter |-> itemAfter]

\* The continuation of a price call (lines 83-111): the response has arrived.
PriceArrivesStores(c, resp) ==
    /\ c \in inflight
    /\ c.kind = "price"
    /\ LET settled == fetchStockPriceSettle(c.symbol, resp)
       IN /\ cache' = fetchStockPriceCacheSet(c, resp)
          /\ localStorage' = fetchStockPriceSave(c, resp)
          /\ netOk' = IF fetchStockPriceTry(c.symbol, resp).save
                      THEN [netOk EXCEPT ![c.symbol] =
                              [valid |-> TRUE, T |-> c.now, data |-> settled.value,
                               persisted |-> storageMode = "ok"]]
                      ELSE netOk
    /\ inflight' = inflight \ {c}
    /\ UNCHANGED <<now, historicalCache, storageMode, nextId, focus, raw, tableVars, ledgerVars>>
    /\ lastCall' = NoCall

\* The same, with what the continuation did recorded for the properties.
PriceArrives(c, resp) ==
    /\ PriceArrivesStores(c, resp)
    /\ lastDone' = DoneRecord(c, resp.kind, fetchStockPriceSettle(c.symbol, resp),
                              priceKey(c.symbol), cache[c.symbol],
                              fetchStockPriceCacheSet(c, resp)[c.symbol],
                              fetchStockPriceSave(c, resp)[priceKey(c.symbol)])

\* The continuation of a history call.
HistoryArrives(c, resp) ==
    /\ c \in inflight
    /\ c.kind = "history"
    /\ LET settled == fetchHistoricalDataSettle(resp)
           key == historyKey(c.symbol)
           newCache == fetchHistoricalDataCacheSet(c, resp)
           newStorage == fetchHistoricalDataSave(c, resp)
       IN /\ historicalCache' = newCache
          /\ localStorage' = newStorage
          /\ lastDone' = DoneRecord(c, resp.kind, settled, key,
                                    historicalCache[c.symbol],
                                    newCache[c.symbol], newStorage[key])
    /\ inflight' = inflight \ {c}
    /\ UNCHANGED <<now, cache, storageMode, nextId, netOk, focus, raw, tableVars, ledgerVars>>
    /\ lastCall' = NoCall

PriceDone ==
    \E c \in inflight : \E resp \in PriceResponses :
        /\ c.owner = "api"
        /\ PriceArrives(c, resp)
        /\ UNCHANGED <<detailVars, batchVars>>

HistoryDone ==
    \E c \in inflight : \E resp \in HistoryResponses :
        /\ c.owner = "api"
        /\ HistoryArrives(c, resp)
        /\ UNCHANGED <<detailVars, batchVars>>

----------------------------------------------------------------------------
(* The environment *)

\* Time passes.
Tick ==
    \E t \in Instants :
        /\ t > now
        /\ now' = t
        /\ lastCall' = NoCall
        /\ lastDone' = NoDone
        /\ UNCHANGED <<cacheVars, storageMode, inflight, nextId,
                       netOk, detailVars, batchVars, focus, raw, tableVars, ledgerVars>>

\* The browser's storage fills up, is denied, or becomes usable again.
StorageChanges ==
    \E m \in {"ok", "full", "denied"} :
        /\ m # storageMode
        /\ storageMode' = m
        /\ lastCall' = NoCall
        /\ lastDone' = NoDone
        /\ UNCHANGED <<now, cacheVars, inflight, nextId,
                       netOk, detailVars, batchVars, focus, raw, tableVars, ledgerVars>>

SymbolOf(key) == key[2]

\* Something else clears or overwrites an item of the storage.
Tamper ==
    \E key \in Keys : \E item \in {NoItem, CorruptItem} :
        /\ localStorage[key] # item
        /\ localStorage' = [localStorage EXCEPT ![key] = item]
        /\ netOk' = IF key = priceKey(SymbolOf(key))
                    THEN [netOk EXCEPT ![SymbolOf(key)] = NoFetch]
                    ELSE netOk
        /\ UNCHANGED <<now, cache, historicalCache, storageMode, inflight,
                       nextId, detailVars, batchVars, focus, raw, tableVars, ledgerVars>>
        /\ lastCall' = NoCall
        /\ lastDone' = NoDone

\* The page is reloaded: the module-level maps start empty, calls in flight
\* are abandoned, localStorage stays.
Reload ==
    /\ cache' = EmptyCache
    /\ historicalCache' = EmptyCache
    /\ inflight' = {}
    /\ load' = IdleLoad
    /\ view' = InitialView
    /\ lastCall' = NoCall
    /\ lastDone' = NoDone
    /\ UNCHANGED <<now, localStorage, storageMode, nextId,
                   netOk, batchVars, focus, raw, tableVars, ledgerVars>>

----------------------------------------------------------------------------
(* Specification of the two-tier cache under direct calls *)

InitCache ==
    /\ InitStores /\ InitIdle /\ InitNoTable /\ InitNoLedger
    /\ focus \in Kinds
    /\ raw \in CacheInputs

NextCache ==
    \/ \E s \in Symbols : CallPrice(s)
    \/ \E s \in Symbols : CallHistory(s)
    \/ PriceDone
    \/ HistoryDone
    \/ Tick
    \/ StorageChanges
    \/ Tamper
    \/ Reload

SpecCache == InitCache /\ [][NextCache]_vars

\* fetchHistoricalData alone, over every response series.
InitHistory ==
    /\ InitStores /\ InitIdle /\ InitNoTable /\ InitNoLedger
    /\ localStorage = [k \in Keys |-> NoItem]
    /\ focus = "history"
    /\ raw \in HistoryInputs

NextHistory ==
    \/ \E s \in Symbols : CallHistory(s)
    \/ HistoryDone

SpecHistory == InitHistory /\ [][NextHistory]_vars

----------------------------------------------------------------------------
(* The detail view: loadData of the StockDetail component (part_000) *)

Fulfilled(value) == [status |-> "fulfilled", value |-> value, reason |-> "none"]

\* The promise of a call right after its synchronous part.
PromiseOf(r) ==
    IF r.via = "network" THEN Pending
    ELSE IF r.via = "rejected"
    THEN [status |-> "rejected", value |-> r.value, reason |-> "Error"]
    ELSE Fulfilled(r.value)

\* Lines 208-213.
LoadingView ==
    [price |-> Null, historicalData |-> <<>>, isPriceLoading |-> TRUE,
     isHistoryLoading |-> TRUE, priceError |-> "null", historyError |-> "null"]

\* Lines 224-228 and 235-239: the message chosen for a rejected promise.
ErrorFor(result) ==
    IF result.reason = "RateLimitError" THEN "rateLimit" ELSE "generic"

\* Lines 220-243: the state set once Promise.allSettled has resolved.
loadDataSettled(priceResult, historyResult) ==
    [price |-> IF priceResult.status = "fulfilled" THEN priceResult.value ELSE Null,
     priceError |-> IF priceResult.status = "fulfilled" THEN "null"
                    ELSE ErrorFor(priceResult),
     historicalData |-> IF historyResult.status = "fulfilled"
                        THEN historyResult.value ELSE <<>>,
     historyError |-> IF historyResult.status = "fulfilled" THEN "null"
                      ELSE ErrorFor(historyResult),
     isPriceLoading |-> FALSE, isHistoryLoading |-> FALSE]

\* Promise.allSettled: loadData goes on when both promises have settled.
AllSettled(l) == l.price.status # "pending" /\ l.history.status # "pending"

Resume(l, v) ==
    /\ load' = IF AllSettled(l) THEN [l EXCEPT !.phase = "done"] ELSE l
    /\ view' = IF AllSettled(l) THEN loadDataSettled(l.price, l.history) ELSE v

\* The effect runs: loadData up to its await (both fetches are started, then
\* whatever is already settled is handled).
LoadData(ticker) ==
    /\ load.phase # "loading"
    /\ nextId < 2 * MaxLoads
    /\ LET rp == fetchStockPriceLookup(cache, ticker)
           rh == fetchHistoricalDataLookup(historicalCache, ticker)
           cp == NewCall(nextId, "price", ticker, "detail")
           ch == NewCall(nextId + 1, "history", ticker, "detail")
           l == [phase |-> "loading", ticker |-> ticker,
                 price |-> PromiseOf(rp), history |-> PromiseOf(rh),
                 priceResp |-> "none", historyResp |-> "none",
                 priceItem |-> itemState(priceKey(ticker))]
       IN /\ cache' = rp.mem
          /\ historicalCache' = rh.mem
          /\ inflight' = inflight
                         \cup (IF rp.via = "network" THEN {cp} ELSE {})
                         \cup (IF rh.via = "network" THEN {ch} ELSE {})
          /\ lastCall' = CallRecord(nextId, "price", ticker, rp, priceKey(ticker))
          /\ Resume(l, LoadingView)
    /\ nextId' = nextId + 2
    /\ lastDone' = NoDone
    /\ UNCHANGED <<now, localStorage, storageMode, netOk, batchVars, focus, raw, tableVars, ledgerVars>>

DetailPriceDone ==
    \E c \in inflight : \E resp \in PriceResponses :
        /\ c.owner = "detail"
        /\ PriceArrives(c, resp)
        /\ Resume([load EXCEPT !.price = fetchStockPriceSettle(c.symbol, resp),
                               !.priceResp = resp.kind], view)
        /\ UNCHANGED batchVars

DetailHistoryDone ==
    \E c \in inflight : \E resp \in HistoryResponses :
        /\ c.owner = "detail"
        /\ HistoryArrives(c, resp)
        /\ Resume([load EXCEPT !.history = fetchHistoricalDataSettle(resp),
                               !.historyResp = resp.kind], view)
        /\ UNCHANGED batchVars

InitDetailStored ==
    /\ now = 0
    /\ cache = EmptyCache
    /\ historicalCache = EmptyCache
    /\ \E p \in [Symbols -> UNION {LeftOverPrice(s) : s \in Symbols}] :
       \E h \in [Symbols -> LeftOverHistory] :
          /\ \A s \in Symbols : p[s] \in LeftOverPrice(s)
          /\ localStorage = [k \in Keys |-> IF k[1] = "stock_price_"
                                            THEN p[k[2]] ELSE h[k[2]]]
    /\ storageMode = "ok"
    /\ inflight = {}
    /\ nextId = 1
    /\ lastCall = NoCall
    /\ lastDone = NoDone
    /\ netOk = [s \in Symbols |-> NoFetch]
    /\ InitIdle /\ InitNoTable /\ InitNoLedger
    /\ focus = "detail"
    /\ raw \in CacheInputs

NextDetail ==
    \/ \E s \in Symbols : LoadData(s)
    \/ DetailPriceDone
    \/ DetailHistoryDone
    \/ Tick
    \/ StorageChanges

SpecDetail == InitDetailStored /\ [][NextDetail]_vars

----------------------------------------------------------------------------
(* fetchMultipleStockPrices *)

batchSize == 5
delayBetweenBatches == 60000

NotYet == [kind |-> "pending"]

Min(a, b) == IF a < b THEN a ELSE b

\* symbols.slice(i, i + batchSize), as positions of symbols (from 1).
BatchOf(i) == (i + 1)..Min(i + batchSize, Len(symbols))

\* Lines 127-133, the synchronous part: fetchStockPrice is called for the
\* positions j..hi in order, each look-up on the transient map the one before
\* left.  Gives that map and, per position, what the look-up did.
RECURSIVE LookupFrom(_, _, _)
LookupFrom(mem, j, hi) ==
    IF j > hi THEN [mem |-> mem, outs |-> <<>>]
    ELSE LET r == fetchStockPriceLookup(mem, symbols[j])
             rest == LookupFrom(r.mem, j + 1, hi)
         IN [mem |-> rest.mem,
             outs |-> <<[pos |-> j, via |-> r.via, value |-> r.value]>> \o rest.outs]

\* Lines 129-132: if (price) results.set(symbol, price).
resultsSet(res, symbol, price) ==
    IF price = Null THEN res ELSE [res EXCEPT ![symbol] = price]

\* The callbacks of the look-ups that hit a cache resume, in order.
RECURSIVE SetHits(_, _)
SetHits(res, outs) ==
    IF outs = <<>> THEN res
    ELSE SetHits(IF Head(outs).via \in {"memory", "local"}
                 THEN resultsSet(res, symbols[Head(outs).pos], Head(outs).value)
                 ELSE res,
                 Tail(outs))

GroupEvent(i) == [ev |-> "group", at |-> now', first |-> i, size |-> Cardinality(BatchOf(i))]
WaitEvent(t) == [ev |-> "wait", at |-> t, first |-> 0, size |-> 0]

\* Mutant: the function returns after the first group that settles.
afterGroupReturn(i) == "done"

\* Mutant: the wait is also taken when the group ends the list exactly.
afterGroupInclusive(i) ==
    IF i + batchSize <= Len(symbols) THEN "waiting" ELSE "done"

\* Lines 138-143: after Promise.all, wait if there are more symbols;
\* otherwise the loop ends and the function returns.
afterGroup(i) ==
    IF i + batchSize < Len(symbols) THEN "waiting" ELSE "done"

\* Promise.all(promises) has resolved for the group at i.
GroupSettled(i, t, tr) ==
    /\ batch' = [phase |-> afterGroup(i), i |-> i]
    /\ trace' = IF afterGroup(i) = "waiting" THEN Append(tr, WaitEvent(t)) ELSE tr

\* One iteration of the loop of line 123 starts at i: the group's calls are
\* made; those answered from a cache settle at once.
StartGroup(i) ==
    LET group == BatchOf(i)
        lk == LookupFrom(cache, i + 1, Min(i + batchSize, Len(symbols)))
        network == {k \in 1..Len(lk.outs) : lk.outs[k].via = "network"}
        failed == {k \in 1..Len(lk.outs) : lk.outs[k].via = "rejected"}
    IN /\ cache' = lk.mem
       /\ results' = SetHits(results, lk.outs)
       /\ attempts' = [k \in 1..Len(symbols) |->
                          IF k \in group THEN attempts[k] + 1 ELSE attempts[k]]
       /\ got' = [k \in 1..Len(symbols) |->
                     IF k \in group /\ lk.outs[k - i].via \in {"memory", "local"}
                     THEN lk.outs[k - i].value ELSE got[k]]
       /\ inflight' = inflight \cup
              {[id |-> lk.outs[k].pos, kind |-> "price",
                symbol |-> symbols[lk.outs[k].pos], now |-> now', owner |-> "batch"]
                 : k \in network}
       /\ IF failed # {}
          THEN batch' = [phase |-> "rejected", i |-> i]
               /\ trace' = Append(trace, GroupEvent(i))
          ELSE IF network = {}
          THEN GroupSettled(i, now', Append(trace, GroupEvent(i)))
          ELSE batch' = [phase |-> "fetching", i |-> i]
               /\ trace' = Append(trace, GroupEvent(i))

\* fetchMultipleStockPrices(symbols) is called: lines 115-123.
BatchCall ==
    /\ batch.phase = "idle"
    /\ now' = now
    /\ IF Len(symbols) = 0
       THEN /\ batch' = [phase |-> "done", i |-> 0]
            /\ UNCHANGED <<cache, results, attempts, got, inflight, trace>>
       ELSE StartGroup(0)
    /\ lastCall' = NoCall
    /\ lastDone' = NoDone
    /\ UNCHANGED <<historicalCache, localStorage, storageMode, nextId, netOk,
                   detailVars, symbols, focus, raw, tableVars, ledgerVars>>

\* The responses a call of the batch can get: every failure, or a quote.
BatchResponses == {r \in PriceResponses : r.p <= 1}

\* The response for one call of the group arrives; when it is the last one
\* out, Promise.all resolves.  A rejected call rejects Promise.all and with
\* it fetchMultipleStockPrices.
BatchPriceDone ==
    \E c \in inflight : \E resp \in BatchResponses :
        /\ c.owner = "batch"
        /\ batch.phase \in {"fetching", "rejected"}
        /\ PriceArrivesStores(c, resp)
        /\ lastDone' = NoDone
        /\ LET settled == fetchStockPriceSettle(c.symbol, resp) IN
           /\ got' = [got EXCEPT ![c.id] = settled.value]
           /\ IF settled.status = "rejected"
              THEN /\ batch' = [batch EXCEPT !.phase = "rejected"]
                   /\ UNCHANGED <<results, trace>>
              ELSE /\ results' = resultsSet(results, c.symbol, settled.value)
                   /\ IF inflight \ {c} = {} /\ batch.phase = "fetching"
                      THEN GroupSettled(batch.i, now, trace)
                      ELSE UNCHANGED <<batch, trace>>
        /\ UNCHANGED <<detailVars, symbols, attempts>>

\* The timer of line 141 fires; the loop goes on with the next group.
WaitElapsed ==
    /\ batch.phase = "waiting"
    /\ now' = now + delayBetweenBatches
    /\ StartGroup(batch.i + batchSize)
    /\ lastCall' = NoCall
    /\ lastDone' = NoDone
    /\ UNCHANGED <<historicalCache, localStorage, storageMode, nextId, netOk,
                   detailVars, symbols, focus, raw, tableVars, ledgerVars>>

\* The argument lists: n distinct identifiers, and the same with the first
\* identifier repeated in the first group or in the second.
Prefix(n) == SubSeq(SymbolNames, 1, n)
BatchInputs ==
    {Prefix(n) : n \in 0..MaxSymbols}
    \cup {[Prefix(n) EXCEPT ![2] = SymbolNames[1]] : n \in 2..MaxSymbols}
    \cup {[Prefix(n) EXCEPT ![6] = SymbolNames[1]] : n \in 6..MaxSymbols}

BatchSymbols == {SymbolNames[k] : k \in 1..MaxSymbols}

InitBatch ==
    /\ now = 0
    /\ cache = [s \in BatchSymbols |-> NoEntry]
    /\ historicalCache = [s \in BatchSymbols |-> NoEntry]
    /\ localStorage = [k \in {priceKey(s) : s \in BatchSymbols} |-> NoItem]
    /\ storageMode \in {"ok", "full"}
    /\ inflight = {}
    /\ nextId = 1
    /\ lastCall = NoCall
    /\ lastDone = NoDone
    /\ netOk = [s \in BatchSymbols |-> NoFetch]
    /\ load = IdleLoad
    /\ view = InitialView
    /\ symbols \in BatchInputs
    /\ batch = IdleBatch
    /\ results = [s \in BatchSymbols |-> Null]
    /\ attempts = [k \in 1..Len(symbols) |-> 0]
    /\ got = [k \in 1..Len(symbols) |-> NotYet]
    /\ trace = <<>>
    /\ focus = "batch"
    /\ raw = <<>>
    /\ InitNoTable /\ InitNoLedger

NextBatch ==
    \/ BatchCall
    \/ BatchPriceDone
    \/ WaitElapsed

SpecBatch == InitBatch /\ [][NextBatch]_vars

----------------------------------------------------------------------------
(* How a caller reads a settled promise (loadData, part_000 lines 220-240) *)

Observed(settled) ==
    IF settled.status = "fulfilled" THEN "value"
    ELSE IF settled.reason = "RateLimitError" THEN "RateLimited"
    ELSE "Error"

----------------------------------------------------------------------------
(* Properties of the cache *)

Age == lastCall.t - lastCall.ok.T
AfterFetch == lastCall.kind = "price" /\ lastCall.ok.valid
Readable == lastCall.mode # "denied"

\* C1 as stated: after a successful network fetch of a price captured at T
\* and no other write for the id, a call younger than 5 minutes and a call
\* younger than 24 hours are answered from the stores without a network
\* request (the second from the persistent store), and a call at 24 hours or
\* later issues a network request.
C1_FreshnessAsStated ==
    AfterFetch =>
        /\ Age < CACHE_DURATION => lastCall.via \in {"memory", "local"}
        /\ (Age >= CACHE_DURATION /\ Age < LOCAL_STORAGE_CACHE_DURATION)
              => lastCall.via = "local"
        /\ Age >= LOCAL_STORAGE_CACHE_DURATION => lastCall.via = "network"

\* C1 (amended): the same, for a fetch whose write to the persistent store
\* succeeded and, where the answer must come from the persistent store, a
\* store that can be read at the call; the quote returned is the fetched one.
C1_Freshness ==
    (AfterFetch /\ lastCall.ok.persisted) =>
        /\ (Age < CACHE_DURATION /\ Readable)
              => lastCall.via \in {"memory", "local"} /\ lastCall.value = lastCall.ok.data
        /\ (Age >= CACHE_DURATION /\ Age < LOCAL_STORAGE_CACHE_DURATION /\ Readable)
              => lastCall.via = "local" /\ lastCall.value = lastCall.ok.data
        /\ Age >= LOCAL_STORAGE_CACHE_DURATION => lastCall.via = "network"

C1_Witness ==
    /\ AfterFetch /\ lastCall.ok.persisted /\ Readable
    /\ Age >= CACHE_DURATION /\ Age < LOCAL_STORAGE_CACHE_DURATION
    /\ lastCall.via = "local"

Finished == lastDone.kind # "none"
RateLimited == Finished /\ lastDone.resp \in RateLimitKinds

\* C2: a rate-limited response reaches the caller as RateLimited, an outcome
\* different from that of a malformed or empty response.
C2_RateLimitedObservable ==
    RateLimited => Observed(lastDone.settled) = "RateLimited"

EmptyValue(kind) == IF kind = "price" THEN Null ELSE <<>>

\* C3: neither function rejects: on every failing network outcome
\* fetchStockPrice resolves to null and fetchHistoricalData to an empty list,
\* and the look-ups before the request do not throw either.
C3_NeverRejects ==
    /\ lastCall.via # "rejected"
    /\ Finished =>
          /\ lastDone.settled.status = "fulfilled"
          /\ lastDone.resp # "ok" => lastDone.settled.value = EmptyValue(lastDone.kind)

C3_Witness == RateLimited /\ lastDone.kind = "price" /\ lastDone.settled.value = Null

KeyOf(d) == IF d.kind = "price" THEN priceKey(d.symbol) ELSE historyKey(d.symbol)

\* The transient maps after call d wrote its entry, and the persistent store
\* after a write of the same entry that went through.
TransientWritten(d) ==
    /\ cache' = IF d.kind = "price"
                THEN [cache EXCEPT ![d.symbol] = Entry(d.settled.value, d.t)]
                ELSE cache
    /\ historicalCache' = IF d.kind = "history"
                          THEN [historicalCache EXCEPT ![d.symbol] = Entry(d.settled.value, d.t)]
                          ELSE historicalCache
PersistentWritten(d) ==
    localStorage' = [localStorage EXCEPT ![KeyOf(d)] =
                        JSONstringify([data |-> d.settled.value, timestamp |-> d.t])]

\* C4 as stated: a successful fetch writes the same new entry to both stores,
\* a failing one leaves both exactly as they were.
C4_WriteThroughAsStated ==
    [][lastDone'.kind # "none" =>
          IF lastDone'.resp = "ok"
          THEN TransientWritten(lastDone') /\ PersistentWritten(lastDone')
          ELSE UNCHANGED cacheVars]_vars

\* C4 (amended): a successful fetch writes the new entry to the transient
\* store, and the same entry to the persistent store unless that write fails,
\* which leaves the persistent store as it was; a failing fetch leaves both
\* stores exactly as they were.
C4_WriteThrough ==
    [][lastDone'.kind # "none" =>
          IF lastDone'.resp = "ok"
          THEN /\ TransientWritten(lastDone')
               /\ IF storageMode = "ok" THEN PersistentWritten(lastDone')
                  ELSE UNCHANGED localStorage
          ELSE UNCHANGED cacheVars]_vars

C4_Witness == Finished /\ lastDone.resp = "ok" /\ lastDone.mode = "full"

\* C8: an absent, unreadable or undeserializable persistent entry sends the
\* call to the network (its data is never returned, nothing is thrown), and
\* a fetch whose persistent write fails still returns the fetched result and
\* still writes the transient store.
C8_StorageTolerated ==
    /\ (lastCall.kind # "none" /\ lastCall.via # "memory"
          /\ lastCall.item \in {"absent", "corrupt", "unreadable"})
       => lastCall.via = "network" /\ lastCall.value = EmptyValue(lastCall.kind)
    /\ (Finished /\ lastDone.resp = "ok" /\ lastDone.mode # "ok")
       => /\ lastDone.settled.status = "fulfilled"
          /\ lastDone.settled.value # EmptyValue(lastDone.kind)
          /\ lastDone.memAfter = Entry(lastDone.settled.value, lastDone.t)
          /\ lastDone.itemAfter = lastDone.itemBefore

C8_Witness ==
    lastCall.kind = "price" /\ lastCall.item = "corrupt" /\ lastCall.via = "network"

----------------------------------------------------------------------------
(* Properties of the batch *)

GroupStarts == SelectSeq(trace, LAMBDA e : e.ev = "group")
Waits == SelectSeq(trace, LAMBDA e : e.ev = "wait")
BatchInFlight == {c \in inflight : c.owner = "batch"}

\* C5: fetchMultipleStockPrices over n identifiers starts consecutive groups
\* of at most 5 in input order, ceil(n/5) of them (5, 5, 2 for 12); one wait
\* of 60 seconds follows each group but the last; the fetches in flight all
\* belong to the current group, and a group starts no sooner than 60 seconds
\* after the wait before it began, which is when the group before it had
\* settled.
C5_Grouping ==
    LET n == Len(symbols) IN
    /\ \A k \in 1..Len(GroupStarts) :
          /\ GroupStarts[k].first = 5 * (k - 1)
          /\ GroupStarts[k].size = Min(5, n - GroupStarts[k].first)
          /\ GroupStarts[k].size >= 1
    /\ \A k \in 1..Len(trace) :
          /\ trace[k].ev = (IF k % 2 = 1 THEN "group" ELSE "wait")
          /\ trace[k].ev = "wait" => trace[k - 1].first + 5 < n
          /\ (trace[k].ev = "group" /\ k > 1) => trace[k].at >= trace[k - 1].at + 60 * 1000
    /\ \A c \in BatchInFlight :
          /\ batch.phase = "fetching"
          /\ c.id \in (batch.i + 1)..Min(batch.i + 5, n)
          /\ batch.i = GroupStarts[Len(GroupStarts)].first
    /\ batch.phase = "waiting" => trace[Len(trace)].ev = "wait"
    /\ batch.phase = "done" =>
          /\ Len(GroupStarts) = (n + 4) \div 5
          /\ Len(Waits) = IF n = 0 THEN 0 ELSE Len(GroupStarts) - 1
          /\ trace # <<>> => trace[Len(trace)].ev = "group"
          /\ n = 12 => [k \in 1..Len(GroupStarts) |-> GroupStarts[k].size] = <<5, 5, 2>>

C5_Witness ==
    /\ batch.phase = "done"
    /\ Len(symbols) = 12
    /\ Len(trace) = 5
    /\ \E k \in 1..12 : got[k] = Null

\* What is left to do: unsettled fetches, then the position in the loop.
C6_Measure ==
    3 * Cardinality({k \in 1..Len(symbols) : got[k] = NotYet})
      + (CASE batch.phase = "idle" -> 2 [] batch.phase = "waiting" -> 1 [] OTHER -> 0)

C6_State ==
    /\ batch.phase # "rejected"
    /\ \A k \in 1..Len(symbols) : attempts[k] <= 1
    /\ batch.phase \in {"idle", "fetching", "waiting", "done"}
    /\ batch.phase = "fetching" => BatchInFlight # {}
    /\ batch.phase = "done" =>
          /\ \A k \in 1..Len(symbols) : attempts[k] = 1 /\ got[k] # NotYet
          /\ \A s \in DOMAIN results :
                IF results[s] = Null
                THEN \A k \in 1..Len(symbols) : symbols[k] = s => got[k] = Null
                ELSE /\ results[s].symbol = s
                     /\ \E k \in 1..Len(symbols) : symbols[k] = s /\ got[k] = results[s]

\* C6: in fetchMultipleStockPrices no fetch's failure rejects the call or
\* stops the others: every position of the list is attempted once; while
\* the call awaits its fetches one of them is in flight, and every step
\* brings the call closer to its end;
\* and the map returned holds exactly the identifiers for which a fetch gave
\* a quote, each with a quote of its own.
C6_IsolatedFailures ==
    /\ []C6_State
    /\ [][C6_Measure' < C6_Measure]_vars

C6_Witness ==
    /\ batch.phase = "done"
    /\ Len(symbols) = 12
    /\ got[1] = Null /\ got[2] # Null
    /\ got[7] = Null /\ got[8] # Null
    /\ got[11] = Null /\ got[12] # Null

----------------------------------------------------------------------------
(* Properties of the detail view *)

\* C7: when the provider reports its rate limit for a security that has an
\* entry in the persistent store, the view shows that entry's quote together
\* with the rate-limit message.
C7_StaleShownWithNotice ==
    (load.phase = "done" /\ load.priceResp \in RateLimitKinds /\ load.priceItem = "json")
        => /\ view.price # Null
           /\ view.priceError # "null"

PriceFailed == load.priceResp \in {"transport", "http", "note", "information"}
HistoryFailed == load.historyResp \in {"transport", "http", "note", "information"}

\* C9: once the detail view has loaded, each fetch's error state is set
\* exactly when that fetch failed, and a fetch that succeeded is displayed
\* whatever happened to the other one.
C9_OwnErrorStates ==
    load.phase = "done" =>
        /\ (view.priceError # "null") <=> PriceFailed
        /\ (view.historyError # "null") <=> HistoryFailed
        /\ load.priceResp = "ok" => view.price # Null
        /\ load.historyResp = "ok" => view.historicalData = normalizeSeries(raw)

----------------------------------------------------------------------------
(* Properties of the historical series *)

RawDates == {raw[k].date : k \in 1..Len(raw)}
Later(d) == {e \in RawDates : DaysFromCivil(e) > DaysFromCivil(d)}

\* C10: on a successful network response fetchHistoricalData gives the
\* response's entries, converted, in strictly ascending order of calendar
\* date whatever their order in the response; at most 90 of them, and when
\* the response has more, those of its 90 latest dates.
C10_SortedRecent ==
    (lastDone.kind = "history" /\ lastDone.resp = "ok") =>
        LET out == lastDone.settled.value IN
        /\ \A k \in 1..(Len(out) - 1) :
              DaysFromCivil(out[k].date) < DaysFromCivil(out[k + 1].date)
        /\ Len(out) = Min(90, Len(raw))
        /\ \A d \in RawDates :
              (\E k \in 1..Len(out) : out[k].date = d) <=> Cardinality(Later(d)) < 90
        /\ \A k \in 1..Len(out) : \E j \in 1..Len(raw) : out[k] = toPoint(raw[j])

C10_Witness ==
    /\ lastDone.kind = "history" /\ lastDone.resp = "ok"
    /\ Len(raw) = 92
    /\ DaysFromCivil(raw[1].date) > DaysFromCivil(raw[2].date)
    /\ Len(lastDone.settled.value) = 90

----------------------------------------------------------------------------
(* JavaScript strings: sequences of one-character strings *)

\* Body(value), with the value computed once however often the body uses
\* it (an argument or a LET definition is computed at every use).
With(value, Body(_)) == CHOOSE result \in {Body(v) : v \in {value}} : TRUE

DigitChars == <<"0", "1", "2", "3", "4", "5", "6", "7", "8", "9">>
IsDigit(c) == \E d \in 1..10 : DigitChars[d] = c
DigitValue(c) == (CHOOSE d \in 1..10 : DigitChars[d] = c) - 1

\* String.prototype.toLowerCase, on the letters of the model.
LowerChar(c) ==
    CASE c = "A" -> "a" [] c = "B" -> "b" [] c = "X" -> "x" [] OTHER -> c
toLowerCase(str) == [i \in 1..Len(str) |-> LowerChar(str[i])]

\* String.prototype.trim; the space is the only white space of the model.
trim(str) ==
    LET inked == {i \in 1..Len(str) : str[i] # " "} IN
    IF inked = {} THEN <<>>
    ELSE SubSeq(str, CHOOSE i \in inked : \A j \in inked : i <= j,
                     CHOOSE i \in inked : \A j \in inked : i >= j)

\* String.prototype.includes
includes(str, part) ==
    \E i \in 0..(Len(str) - Len(part)) : SubSeq(str, i + 1, i + Len(part)) = part

\* A cell of a row: row[key] is a string, or undefined when the row has no
\* such key.
Cell(text) == [defined |-> TRUE, text |-> text]
UndefinedCell == [defined |-> FALSE, text |-> <<>>]

\* String(value ?? "")
StringOf(value) == IF value.defined THEN value.text ELSE <<>>

----------------------------------------------------------------------------
(* Dates of the ledger: parseDateToTimestamp and formatDateLabel *)

AllDigits(str) == \A i \in 1..Len(str) : IsDigit(str[i])

\* parseInt(text, 10) and Number(text) of a run of decimal digits.
RECURSIVE DecimalValue(_)
DecimalValue(str) ==
    IF str = <<>> THEN 0
    ELSE 10 * DecimalValue(SubSeq(str, 1, Len(str) - 1)) + DigitValue(str[Len(str)])

\* String(n) of a natural number.
RECURSIVE NumberToString(_)
NumberToString(n) ==
    IF n < 10 THEN <<DigitChars[n + 1]>>
    ELSE Append(NumberToString(n \div 10), DigitChars[(n % 10) + 1])

\* String.prototype.padStart(2, "0")
padStart2(str) == IF Len(str) < 2 THEN <<"0">> \o str ELSE str

DateSeparators == {"/", ".", "-"}

\* The three parts of a text of the form digits, separator, digits,
\* separator, digits ([\/.\-] twice, the two need not be the same).
ThreeParts(str) ==
    LET seps == {i \in 1..Len(str) : str[i] \in DateSeparators} IN
    IF Cardinality(seps) # 2 THEN [ok |-> FALSE, p |-> <<>>]
    ELSE LET i == CHOOSE x \in seps : \A y \in seps : x <= y
             j == CHOOSE x \in seps : \A y \in seps : x >= y
             p == <<SubSeq(str, 1, i - 1), SubSeq(str, i + 1, j - 1),
                    SubSeq(str, j + 1, Len(str))>>
         IN [ok |-> \A k \in 1..3 : p[k] # <<>> /\ AllDigits(p[k]), p |-> p]

\* /^\d+(\.\d+)?$/
numericMatch(str) ==
    LET dots == {i \in 1..Len(str) : str[i] = "."} IN
    \/ str # <<>> /\ AllDigits(str)
    \/ /\ Cardinality(dots) = 1
       /\ LET i == CHOOSE x \in dots : TRUE IN
          /\ i > 1 /\ i < Len(str)
          /\ AllDigits(SubSeq(str, 1, i - 1))
          /\ AllDigits(SubSeq(str, i + 1, Len(str)))

\* The whole days of Number(text) for a text numericMatch accepts.
SerialOf(str) ==
    LET dots == {i \in 1..Len(str) : str[i] = "."} IN
    IF dots = {} THEN DecimalValue(str)
    ELSE DecimalValue(SubSeq(str, 1, (CHOOSE x \in dots : TRUE) - 1))

\* /^(\d{1,2})[\/.\-](\d{1,2})[\/.\-](\d{4})$/
dmyMatch(str) ==
    With(ThreeParts(str), LAMBDA t :
        IF t.ok /\ Len(t.p[1]) <= 2 /\ Len(t.p[2]) <= 2 /\ Len(t.p[3]) = 4
        THEN [ok |-> TRUE, day |-> t.p[1], month |-> t.p[2], year |-> t.p[3]]
        ELSE [ok |-> FALSE, day |-> <<>>, month |-> <<>>, year |-> <<>>])

\* /^(\d{4})[\/.\-](\d{1,2})[\/.\-](\d{1,2})$/
ymdMatch(str) ==
    With(ThreeParts(str), LAMBDA t :
        IF t.ok /\ Len(t.p[1]) = 4 /\ Len(t.p[2]) <= 2 /\ Len(t.p[3]) <= 2
        THEN [ok |-> TRUE, day |-> t.p[3], month |-> t.p[2], year |-> t.p[1]]
        ELSE [ok |-> FALSE, day |-> <<>>, month |-> <<>>, year |-> <<>>])

\* new Date(year, month, day).getTime(), month from 0, in days since
\* 1970-01-01 (the time zone is UTC; 32-bit integers do not hold the
\* milliseconds).  Months and days out of range carry over, and a year from
\* 0 to 99 is taken in the 1900s.
DateOf(year, month, day) ==
    LET y == IF year <= 99 THEN 1900 + year ELSE year
        carried == y * 12 + month
    IN DaysFromCivil(<<carried \div 12, (carried % 12) + 1, 1>>) + day - 1

\* The calendar date of a number of days since 1970-01-01: getFullYear(),
\* getMonth() + 1, getDate().
CivilFromDays(z) ==
    LET shifted == z + 719468
        era == shifted \div 146097
        doe == shifted - era * 146097
        yoe == (doe - doe \div 1460 + doe \div 36524 - doe \div 146096) \div 365
        doy == doe - (365 * yoe + yoe \div 4 - yoe \div 100)
        mp == (5 * doy + 2) \div 153
        m == IF mp < 10 THEN mp + 3 ELSE mp - 9
    IN [y |-> (yoe + era * 400) + (IF m <= 2 THEN 1 ELSE 0), m |-> m,
        d |-> doy - (153 * mp + 2) \div 5 + 1]

MaxSerial == 2958465

\* XLSX.SSF.parse_date_code(numeric): the date of a spreadsheet serial
\* number, null past 9999-12-31; day 0 is "January 0" of 1900 and day 60
\* the 29th of February 1900 the spreadsheets count.
parse_date_code(serial) ==
    IF serial > MaxSerial THEN [ok |-> FALSE, y |-> 0, m |-> 0, d |-> 0]
    ELSE IF serial = 60 THEN [ok |-> TRUE, y |-> 1900, m |-> 2, d |-> 29]
    ELSE IF serial = 0 THEN [ok |-> TRUE, y |-> 1900, m |-> 1, d |-> 0]
    ELSE LET date == IF serial > 60 THEN serial - 1 ELSE serial IN
         With(DateOf(1900, 0, 1) + date - 1, LAMBDA days :
         With(CivilFromDays(days), LAMBDA c :
             [ok |-> TRUE, y |-> c.y, m |-> c.m, d |-> c.d]))

\* No year, month and day: the text is not a number the spreadsheet's
\* parser accepts, or not of a pattern.
NoMatch == [ok |-> FALSE, y |-> 0, m |-> 0, d |-> 0]

\* Number(year), Number(month), Number(day) of a match of a pattern.
Numbers(match) ==
    IF match.ok
    THEN [ok |-> TRUE, y |-> DecimalValue(match.year), m |-> DecimalValue(match.month),
          d |-> DecimalValue(match.day)]
    ELSE NoMatch

\* part_000 lines 28-61 (App.tsx lines 72-105 are the same).
parseDateToTimestamp(value) ==
    With(trim(value), LAMBDA trimmed :
    With(IF numericMatch(trimmed) THEN parse_date_code(SerialOf(trimmed)) ELSE NoMatch,
         LAMBDA serial :
    With(IF serial.ok THEN serial
         ELSE With(dmyMatch(trimmed), LAMBDA dmy :
                  IF dmy.ok THEN Numbers(dmy) ELSE Numbers(ymdMatch(trimmed))),
         LAMBDA parsed :
             IF trimmed # <<>> /\ parsed.ok
             THEN DateOf(parsed.y, parsed.m - 1, parsed.d)
             ELSE 0)))

\* `${day}/${month}/${year}`
Label(day, month, year) == day \o <<"/">> \o month \o <<"/">> \o year

\* part_000 lines 63-96 (App.tsx lines 107-143 are the same).
formatDateLabel(value) ==
    With(trim(value), LAMBDA trimmed :
    With(IF numericMatch(trimmed) THEN parse_date_code(SerialOf(trimmed)) ELSE NoMatch,
         LAMBDA serial :
             IF trimmed = <<>> THEN <<>>
             ELSE IF serial.ok
             THEN Label(padStart2(NumberToString(serial.d)),
                        padStart2(NumberToString(serial.m)), NumberToString(serial.y))
             ELSE With(dmyMatch(trimmed), LAMBDA dmy :
                      IF dmy.ok THEN Label(padStart2(dmy.day), padStart2(dmy.month), dmy.year)
                      ELSE With(ymdMatch(trimmed), LAMBDA ymd :
                               IF ymd.ok
                               THEN Label(padStart2(ymd.day), padStart2(ymd.month), ymd.year)
                               ELSE trimmed))))

----------------------------------------------------------------------------
(* SortableTable: the component's state *)

\* A column descriptor; an optional field that is left out is "undefined".
Column(key, sortable, filterable, filterType, sortComparator) ==
    [key |-> key, sortable |-> sortable, filterable |-> filterable,
     filterType |-> filterType, sortComparator |-> sortComparator]

\* Lines 192-193: columns.find(col => col.filterType === 'date') and
\* dateColumn?.key || null
findDateColumn(cols) ==
    LET hits == {i \in 1..Len(cols) : cols[i].filterType = "date"} IN
    IF hits = {} THEN [found |-> FALSE, key |-> "null"]
    ELSE LET key == cols[CHOOSE i \in hits : \A j \in hits : i <= j].key
         IN [found |-> TRUE, key |-> IF key = "" THEN "null" ELSE key]

\* Lines 193-196: the useState initial values.
MountTable(cols) ==
    /\ sortColumn = findDateColumn(cols).key
    /\ sortDirection = IF findDateColumn(cols).found THEN "desc" ELSE "null"
    /\ filters = <<>>
    /\ showFilters = FALSE

\* Mutant: a two-state toggle, descending goes back to ascending.
handleSortTwoState(columnKey) ==
    IF sortColumn = columnKey
    THEN sortDirection' = (IF sortDirection = "asc" THEN "desc" ELSE "asc")
         /\ UNCHANGED sortColumn
    ELSE sortColumn' = columnKey /\ sortDirection' = "asc"

\* Mutant: descending clears the direction and keeps the column.
handleSortKeepsColumn(columnKey) ==
    IF sortColumn = columnKey
    THEN IF sortDirection = "asc"
         THEN sortDirection' = "desc" /\ UNCHANGED sortColumn
         ELSE IF sortDirection = "desc"
         THEN sortDirection' = "null" /\ UNCHANGED sortColumn
         ELSE sortDirection' = "asc" /\ UNCHANGED sortColumn
    ELSE sortColumn' = columnKey /\ sortDirection' = "asc"

\* Lines 198-212.
handleSort(columnKey) ==
    IF sortColumn = columnKey
    THEN IF sortDirection = "asc"
         THEN sortDirection' = "desc" /\ UNCHANGED sortColumn
         ELSE IF sortDirection = "desc"
         THEN sortColumn' = "null" /\ sortDirection' = "null"
         ELSE sortDirection' = "asc" /\ UNCHANGED sortColumn
    ELSE sortColumn' = columnKey /\ sortDirection' = "asc"

\* Lines 214-219: { ...prev, [columnKey]: value }; the keys keep the order in
\* which they were first set.
handleFilterChange(prev, columnKey, value) ==
    IF \E i \in 1..Len(prev) : prev[i].key = columnKey
    THEN [i \in 1..Len(prev) |->
            IF prev[i].key = columnKey THEN [key |-> columnKey, value |-> value]
            ELSE prev[i]]
    ELSE Append(prev, [key |-> columnKey, value |-> value])

Unsorted == sortColumn = "null" /\ sortDirection = "null"

\* Lines 297-302: the header button of a column that is not marked
\* sortable: false is clicked.
SortClick ==
    \E i \in 1..Len(columns) :
        /\ columns[i].sortable # "false"
        /\ handleSort(columns[i].key)
        /\ lastClick' = columns[i].key
        /\ toggles' = IF Unsorted THEN <<columns[i].key>>
                      ELSE IF toggles # <<>> /\ Len(toggles) < 3
                      THEN Append(toggles, columns[i].key)
                      ELSE toggles
        /\ UNCHANGED <<columns, tableData, filters, showFilters, engine, queried>>
        /\ UNCHANGED <<now, cacheVars, storageMode, inflight, nextId, lastCall, lastDone,
                       netOk, detailVars, batchVars, focus, raw, ledgerVars>>

\* What a user types into a filter input.
FilterTexts == {<<>>, <<" ">>, <<"a">>, <<" ", "A">>, <<"1">>}

\* Lines 314-323: the filter input of a filterable column, rendered while
\* the filters are shown, changes.
FilterInput ==
    \E i \in 1..Len(columns) : \E value \in FilterTexts :
        /\ columns[i].filterable = "true"
        /\ showFilters
        /\ filters' = handleFilterChange(filters, columns[i].key, value)
        /\ filters' # filters
        /\ lastClick' = "none"
        /\ UNCHANGED <<columns, tableData, sortColumn, sortDirection, showFilters,
                       engine, toggles, queried>>
        /\ UNCHANGED <<now, cacheVars, storageMode, inflight, nextId, lastCall, lastDone,
                       netOk, detailVars, batchVars, focus, raw, ledgerVars>>

\* Line 277: setShowFilters(!showFilters)
ToggleFilters ==
    /\ showFilters' = ~showFilters
    /\ lastClick' = "none"
    /\ UNCHANGED <<columns, tableData, sortColumn, sortDirection, filters,
                   engine, toggles, queried>>
    /\ UNCHANGED <<now, cacheVars, storageMode, inflight, nextId, lastCall, lastDone,
                   netOk, detailVars, batchVars, focus, raw, ledgerVars>>

\* The column sets the table is mounted with: the flags left out, set and
\* cleared, with and without a date column.
ColumnSets ==
    {<<Column("name", "undefined", "true", "undefined", "undefined"),
       Column("qty", "true", "false", "undefined", "undefined"),
       Column("note", "false", "undefined", "undefined", "undefined")>>,
     <<Column("date", "true", "true", "date", "byDate"),
       Column("name", "true", "true", "undefined", "undefined")>>,
     <<Column("name", "true", "true", "text", "undefined"),
       Column("date", "false", "false", "date", "undefined")>>}

InitTable ==
    /\ InitNoCache /\ InitIdle /\ InitNoLedger
    /\ focus = "table"
    /\ columns \in ColumnSets
    /\ tableData = <<>>
    /\ MountTable(columns)
    /\ engine = "none"
    /\ lastClick = "none"
    /\ toggles = <<>>
    /\ queried = [phase |-> "idle"]

NextTable ==
    \/ SortClick
    \/ FilterInput
    \/ ToggleFilters

SpecTable == InitTable /\ [][NextTable]_vars

----------------------------------------------------------------------------
(* Properties of the table's state *)

\* C11: a call of handleSort on the current sort column moves ascending to
\* descending, descending to unsorted and unsorted to ascending; a call on
\* another column gives ascending on that column whatever the direction was;
\* three calls in a row on one column, the first in the unsorted state, end
\* in the unsorted state.
C11_SortToggle ==
    /\ [][lastClick' # "none" =>
            IF sortColumn = lastClick'
            THEN \/ sortDirection = "asc" /\ sortColumn' = sortColumn /\ sortDirection' = "desc"
                 \/ sortDirection = "desc" /\ sortColumn' = "null" /\ sortDirection' = "null"
                 \/ sortDirection = "null" /\ sortColumn' = sortColumn /\ sortDirection' = "asc"
            ELSE sortColumn' = lastClick' /\ sortDirection' = "asc"]_vars
    /\ [](\A n \in 1..3 :
            (Len(toggles) = n /\ \A k \in 1..n : toggles[k] = toggles[1]) =>
               /\ n = 1 => sortColumn = toggles[1] /\ sortDirection = "asc"
               /\ n = 2 => sortColumn = toggles[1] /\ sortDirection = "desc"
               /\ n = 3 => Unsorted)

C11_Witness ==
    /\ Len(toggles) = 3 /\ toggles[1] = toggles[2] /\ toggles[2] = toggles[3]
    /\ lastClick = toggles[3]
    /\ Unsorted

\* C12: the column the rows are sorted by, the initial one included, is not
\* marked sortable: false, and every filter that is applied (not empty once
\* trimmed) is on a column marked filterable.
C12_FlagsHonoured ==
    /\ (sortColumn # "null" /\ sortDirection # "null") =>
          \E i \in 1..Len(columns) :
              columns[i].key = sortColumn /\ columns[i].sortable # "false"
    /\ \A f \in 1..Len(filters) :
          trim(toLowerCase(filters[f].value)) # <<>> =>
              \E i \in 1..Len(columns) :
                  columns[i].key = filters[f].key /\ columns[i].filterable = "true"

----------------------------------------------------------------------------
(* SortableTable: sortedAndFilteredData *)

\* row[columnKey]
CellAt(row, columnKey) ==
    IF columnKey \in DOMAIN row THEN row[columnKey] ELSE UndefinedCell

\* Lines 228-233: the row's cell contains the filter value.
rowPassesExact(row, columnKey, filterValue) ==
    includes(StringOf(CellAt(row, columnKey)), filterValue)

rowPasses(row, columnKey, filterValue) ==
    includes(trim(toLowerCase(StringOf(CellAt(row, columnKey)))), filterValue)

\* Lines 225-235: Object.keys(filters).forEach(...)
RECURSIVE applyFilters(_, _)
applyFilters(result, fs) ==
    IF fs = <<>> THEN result
    ELSE LET columnKey == Head(fs).key
             filterValue == trim(toLowerCase(Head(fs).value))
         IN applyFilters(IF filterValue # <<>>
                         THEN SelectSeq(result, LAMBDA row : rowPasses(row, columnKey, filterValue))
                         ELSE result,
                         Tail(fs))

\* Number(text): NaN, or the value of an optional sign and decimal digits
\* between white space; the empty text is 0.  (No cell of the model holds a
\* decimal point outside a date.)
Number(str) ==
    LET t == trim(str)
        signed == t # <<>> /\ t[1] \in {"-", "+"}
        digits == IF signed THEN Tail(t) ELSE t
    IN IF AllDigits(digits) /\ (signed => digits # <<>>)
       THEN [nan |-> FALSE,
             n |-> IF signed /\ t[1] = "-" THEN 0 - DecimalValue(digits)
                   ELSE DecimalValue(digits)]
       ELSE [nan |-> TRUE, n |-> 0]

\* The order of the characters under the collation of locale "he": white
\* space, punctuation, digits, letters; a capital differs from its small
\* letter at the last level only.
CollationChars ==
    <<" ", "-", ".", "/", "0", "1", "2", "3", "4", "5", "6", "7", "8", "9", "a", "b", "x">>

PrimaryWeight(c) ==
    CHOOSE i \in 1..Len(CollationChars) : CollationChars[i] = LowerChar(c)

\* aStr.localeCompare(bStr, "he")
localeCompare(a, b) ==
    LET n == IF Len(a) < Len(b) THEN Len(a) ELSE Len(b)
        primary == {i \in 1..n : PrimaryWeight(a[i]) # PrimaryWeight(b[i])}
        tertiary == {i \in 1..n : a[i] # b[i]}
        First(set) == CHOOSE i \in set : \A j \in set : i <= j
    IN IF primary # {}
       THEN IF PrimaryWeight(a[First(primary)]) < PrimaryWeight(b[First(primary)])
            THEN -1 ELSE 1
       ELSE IF Len(a) # Len(b) THEN IF Len(a) < Len(b) THEN -1 ELSE 1
       ELSE IF tertiary # {}
       THEN IF LowerChar(a[First(tertiary)]) = a[First(tertiary)] THEN -1 ELSE 1
       ELSE 0

\* App.tsx lines 566-570: the sortComparator of the date column.
byDate(a, b) ==
    With([side \in {"a", "b"} |->
             parseDateToTimestamp(StringOf(IF side = "a" THEN a ELSE b))],
         LAMBDA timestamp : timestamp["a"] - timestamp["b"])

\* column.sortComparator(aValue, bValue)
sortComparator(name, aValue, bValue) ==
    IF name = "byDate" THEN byDate(aValue, bValue) ELSE 0

\* Line 239: columns.find(col => col.key === sortColumn)
findColumn(cols, key) ==
    LET hits == {i \in 1..Len(cols) : cols[i].key = key} IN
    IF hits = {} THEN [found |-> FALSE, col |-> Column("", "", "", "", "undefined")]
    ELSE [found |-> TRUE, col |-> cols[CHOOSE i \in hits : \A j \in hits : i <= j]]

\* What a sort works with: the columns, the sort column and the direction.
SortContext(cols, key, dir) == [cols |-> cols, key |-> key, dir |-> dir]

\* Lines 246-249 and 265 with the direction left out.
directed(dir, comparison) == comparison

\* Lines 248 and 265: sortDirection === "asc" ? comparison : -comparison
Directed(dir, comparison) == IF dir = "asc" THEN comparison ELSE 0 - comparison

\* Lines 241-266: the function given to result.sort.
compare(ctx, a, b) ==
    LET column == findColumn(ctx.cols, ctx.key)
        aValue == CellAt(a, ctx.key)
        bValue == CellAt(b, ctx.key)
        aStr == StringOf(aValue)
        bStr == StringOf(bValue)
        aNum == Number(aStr)
        bNum == Number(bStr)
    IN IF column.found /\ column.col.sortComparator # "undefined"
       THEN Directed(ctx.dir, sortComparator(column.col.sortComparator, aValue, bValue))
       ELSE Directed(ctx.dir, IF ~aNum.nan /\ ~bNum.nan THEN aNum.n - bNum.n
                              ELSE localeCompare(aStr, bStr))

Reverse(seq) == [i \in 1..Len(seq) |-> seq[Len(seq) + 1 - i]] \o <<>>

\* Array.prototype.sort leaves the algorithm to the engine.  One engine
\* sorts a short array by binary insertion after making a run of its start.
RECURSIVE runLength(_, _, _, _)
runLength(ctx, arr, descending, idx) ==
    IF idx > Len(arr) THEN idx - 1
    ELSE LET order == compare(ctx, arr[idx], arr[idx - 1]) IN
         IF (descending /\ order >= 0) \/ (~descending /\ order < 0) THEN idx - 1
         ELSE runLength(ctx, arr, descending, idx + 1)

RECURSIVE binarySearch(_, _, _, _, _)
binarySearch(ctx, arr, pivot, left, right) ==
    IF left >= right THEN left
    ELSE LET mid == left + (right - left) \div 2 IN
         IF compare(ctx, pivot, arr[mid + 1]) < 0
         THEN binarySearch(ctx, arr, pivot, left, mid)
         ELSE binarySearch(ctx, arr, pivot, mid + 1, right)

RECURSIVE binaryInsertionSort(_, _, _)
binaryInsertionSort(ctx, arr, start) ==
    IF start >= Len(arr) THEN arr
    ELSE LET pivot == arr[start + 1]
             pos == binarySearch(ctx, arr, pivot, 0, start)
         IN With(SubSeq(arr, 1, pos) \o <<pivot>> \o SubSeq(arr, pos + 1, start)
                     \o SubSeq(arr, start + 2, Len(arr)),
                 LAMBDA inserted : binaryInsertionSort(ctx, inserted, start + 1))

insertionEngine(ctx, arr) ==
    IF Len(arr) < 2 THEN arr
    ELSE With(compare(ctx, arr[2], arr[1]) < 0, LAMBDA descending :
         With(runLength(ctx, arr, descending, 3), LAMBDA n :
         With(IF descending
              THEN Reverse(SubSeq(arr, 1, n)) \o SubSeq(arr, n + 1, Len(arr))
              ELSE arr,
              LAMBDA made : binaryInsertionSort(ctx, made, n))))

\* The other engine merges runs of width 1, 2, 4, ... from the bottom up.
RECURSIVE mergeRuns(_, _, _)
mergeRuns(ctx, left, right) ==
    IF left = <<>> THEN right
    ELSE IF right = <<>> THEN left
    ELSE IF compare(ctx, Head(right), Head(left)) < 0
    THEN <<Head(right)>> \o mergeRuns(ctx, left, Tail(right))
    ELSE <<Head(left)>> \o mergeRuns(ctx, Tail(left), right)

RECURSIVE mergePass(_, _, _)
mergePass(ctx, arr, width) ==
    IF Len(arr) <= width THEN arr
    ELSE LET last == IF Len(arr) < 2 * width THEN Len(arr) ELSE 2 * width IN
         mergeRuns(ctx, SubSeq(arr, 1, width), SubSeq(arr, width + 1, last))
             \o mergePass(ctx, SubSeq(arr, last + 1, Len(arr)), width)

RECURSIVE mergeEngine(_, _, _)
mergeEngine(ctx, arr, width) ==
    IF width >= Len(arr) THEN arr
    ELSE With(mergePass(ctx, arr, width),
              LAMBDA merged : mergeEngine(ctx, merged, 2 * width))

Engines == {"insertion", "merge"}

\* Line 241: result.sort(...)
arraySort(eng, ctx, arr) ==
    IF eng = "merge" THEN mergeEngine(ctx, arr, 1) ELSE insertionEngine(ctx, arr)

\* Lines 221-270
sortedAndFilteredData(data, cols, fs, key, dir, eng) ==
    With(applyFilters(data, fs), LAMBDA result :
        IF key # "null" /\ key # "" /\ dir # "null"
        THEN arraySort(eng, SortContext(cols, key, dir), result)
        ELSE result)

----------------------------------------------------------------------------
(* The table computes its rows *)

MaxRows == 4

\* The columns of the table whose rows are computed.
QueryColumns ==
    <<Column("name", "undefined", "true", "undefined", "undefined"),
      Column("qty", "true", "true", "undefined", "undefined"),
      Column("date", "true", "true", "date", "byDate")>>

QueryRow(name, qty, date) == [name |-> name, qty |-> qty, date |-> date]

\* What the rows of the table hold: numbers, texts, texts that differ in
\* case and white space only, a missing cell, dates in both forms.
RowContents ==
    <<QueryRow(Cell(<<"x", "a">>), Cell(<<"9">>), Cell(<<"1", "/", "2", "/", "2", "0", "2", "4">>)),
      QueryRow(Cell(<<"A", " ", "b">>), Cell(<<"1", "0">>),
               Cell(<<"2", "0", "2", "4", "-", "0", "2", "-", "0", "1">>)),
      QueryRow(Cell(<<" ", "a">>), Cell(<<"1", "a">>), Cell(<<"a", "b">>)),
      QueryRow(Cell(<<"a", "b">>), Cell(<<"x">>), Cell(<<>>)),
      QueryRow(UndefinedCell, Cell(<<" ", "9">>),
               Cell(<<"3", "1", ".", "1", ".", "2", "0", "2", "4">>))>>

\* The rows the table is given, up to MaxRows of them in any order: each
\* row is an object of its own, told apart by id.
QueryData ==
    UNION {{[i \in 1..n |-> [id |-> i] @@ RowContents[pick[i]]] \o <<>> :
                pick \in {p \in [1..n -> 1..Len(RowContents)] :
                              \A i, j \in 1..n : p[i] = p[j] => i = j}} : n \in 0..MaxRows}

\* The filters a user has typed into the inputs of the columns.
QueryFilters ==
    {<<>>,
     <<[key |-> "name", value |-> <<"a">>]>>,
     <<[key |-> "name", value |-> <<" ", "A">>]>>,
     <<[key |-> "name", value |-> <<"a">>], [key |-> "qty", value |-> <<"1">>]>>,
     <<[key |-> "name", value |-> <<" ">>], [key |-> "qty", value |-> <<"9">>]>>}

\* The sort states handleSort reaches.
QuerySorts ==
    {<<"null", "null">>} \cup
    {<<QueryColumns[i].key, dir>> : i \in 1..Len(QueryColumns), dir \in {"asc", "desc"}}

InitQuery ==
    /\ InitNoCache /\ InitIdle /\ InitNoLedger
    /\ focus = "query"
    /\ columns = QueryColumns
    /\ tableData \in QueryData
    /\ filters \in QueryFilters
    /\ \E sort \in QuerySorts : sortColumn = sort[1] /\ sortDirection = sort[2]
    /\ showFilters = TRUE
    /\ engine \in Engines
    /\ lastClick = "none"
    /\ toggles = <<>>
    /\ queried = [phase |-> "idle"]

QueryFrame ==
    /\ UNCHANGED <<columns, tableData, sortColumn, sortDirection, filters, showFilters,
                   engine, lastClick, toggles>>
    /\ UNCHANGED <<now, cacheVars, storageMode, inflight, nextId, lastCall, lastDone,
                   netOk, detailVars, batchVars, focus, raw, ledgerVars>>

\* The table renders: useMemo computes sortedAndFilteredData.
Render ==
    /\ queried.phase = "idle"
    /\ queried' = [phase |-> "rendered",
                   result |-> sortedAndFilteredData(tableData, columns, filters,
                                                    sortColumn, sortDirection, engine)]
    /\ QueryFrame

\* The table renders again with the same arguments.
RenderAgain ==
    /\ queried.phase = "rendered"
    /\ queried' = [phase |-> "twice", result |-> queried.result,
                   second |-> sortedAndFilteredData(tableData, columns, filters,
                                                    sortColumn, sortDirection, engine)]
    /\ QueryFrame

\* The rows computed are given to a table with the same columns, filters
\* and sort.
Requery ==
    /\ queried.phase = "rendered"
    /\ queried' = [phase |-> "requeried", result |-> queried.result,
                   again |-> sortedAndFilteredData(queried.result, columns, filters,
                                                   sortColumn, sortDirection, engine)]
    /\ QueryFrame

NextQuery ==
    \/ Render
    \/ RenderAgain
    \/ Requery

SpecQuery == InitQuery /\ [][NextQuery]_vars

----------------------------------------------------------------------------
(* Dates are parsed and formatted *)

DayTexts == {<<"1">>, <<"3", "1">>}
MonthTexts == {<<"2">>, <<"1", "2">>, <<"1", "3">>}
YearTexts == {<<"2", "0", "2", "4">>, <<"1", "9", "7", "0">>, <<"0", "0", "2", "4">>}

\* A day or month as the file writes it: with or without a leading zero.
Written(digits, padded) == IF padded THEN padStart2(digits) ELSE digits

\* One calendar day written day first and written year first.
SameDayPairs ==
    {[a |-> Written(d, pa) \o <<s1>> \o Written(m, pa) \o <<s2>> \o y,
      b |-> y \o <<s3>> \o Written(m, pb) \o <<s1>> \o Written(d, pb),
      sameDay |-> TRUE] :
         d \in DayTexts, m \in MonthTexts, y \in YearTexts,
         pa \in BOOLEAN, pb \in BOOLEAN,
         s1 \in DateSeparators, s2 \in DateSeparators, s3 \in DateSeparators}

\* Other cells of the date column: empty, blank, serial numbers of the
\* spreadsheet, texts that are no date.
OtherDateTexts ==
    {<<>>, <<" ">>, <<"a", "b">>, <<"1", "/", "2", "/", "2", "4">>,
     <<"2", "0", "2", "4", "/", "1">>, <<"1", "/", "2", "/", "2", "0", "2", "4", "x">>,
     <<"1", "/", "2", "/", "/", "2", "0", "2", "4">>,
     <<"0">>, <<"5", "9">>, <<"6", "0">>, <<"6", "1">>,
     <<"4", "5", "0", "0", "0">>, <<"4", "5", "0", "0", "0", ".", "5">>,
     <<"2", "9", "5", "8", "4", "6", "6">>,
     <<" ", "1", "/", "2", "/", "2", "0", "2", "4", " ">>,
     <<"2", "5", "5", "6", "9">>}

DatePairs ==
    SameDayPairs \cup {[a |-> t, b |-> t, sameDay |-> FALSE] : t \in OtherDateTexts}

NotParsed == [done |-> FALSE, a |-> 0, b |-> 0]
NotFormatted == [done |-> FALSE, a |-> <<>>, b |-> <<>>]

InitDates ==
    /\ InitNoCache /\ InitIdle /\ InitNoTable
    /\ focus = "dates"
    /\ rows = <<>>
    /\ selectedTicker = "null"
    /\ \E pair \in DatePairs :
           screen = [tab |-> "dates", input |-> pair,
                     timestamp |-> NotParsed, label |-> NotFormatted]

DatesFrame ==
    UNCHANGED <<now, cacheVars, storageMode, inflight, nextId, lastCall, lastDone,
                netOk, detailVars, batchVars, focus, raw, tableVars, rows, selectedTicker>>

\* parseDateToTimestamp is applied to the two texts.
ParseDates ==
    /\ screen.tab = "dates" /\ ~screen.timestamp.done
    /\ screen' = [screen EXCEPT !.timestamp =
                      [done |-> TRUE, a |-> parseDateToTimestamp(screen.input.a),
                       b |-> parseDateToTimestamp(screen.input.b)]]
    /\ DatesFrame

\* formatDateLabel is applied to the two texts.
FormatDates ==
    /\ screen.tab = "dates" /\ ~screen.label.done
    /\ screen' = [screen EXCEPT !.label =
                      [done |-> TRUE, a |-> formatDateLabel(screen.input.a),
                       b |-> formatDateLabel(screen.input.b)]]
    /\ DatesFrame

NextDates ==
    \/ ParseDates
    \/ FormatDates

SpecDates == InitDates /\ [][NextDates]_vars

----------------------------------------------------------------------------
(* The ledger: rows of the uploaded files and the views derived from them *)

\* A row of the ledger: the id or symbol of the security, its name, the
\* action type, the date, the quantity, the fee of the action and the
\* proceeds in shekels, every one the text of its cell.  The action types
\* the views tell apart are named buy, sell, benefit, dividend and tax
\* here (the Hebrew labels of lines 292-313).
LedgerRow(ticker, name, action, date, quantity, fee, proceeds) ==
    [ticker |-> ticker, name |-> name, action |-> action, date |-> date,
     quantity |-> quantity, fee |-> fee, proceeds |-> proceeds]

\* The digits a text starts with.
digitsRun(str) ==
    LET stops == {i \in 1..Len(str) : ~IsDigit(str[i])} IN
    IF stops = {} THEN str
    ELSE SubSeq(str, 1, (CHOOSE i \in stops : \A j \in stops : i <= j) - 1)

\* parseFloat(text) || 0, in thousandths: white space, an optional sign,
\* digits, and after a point more digits, up to the first other character;
\* NaN, which a text with no digit there gives, becomes 0.  (No number of
\* the model has more than three decimals, or an exponent.)
parseFloatOr0(text) ==
    With(trim(text), LAMBDA t :
        LET signed == t # <<>> /\ t[1] \in {"-", "+"}
            rest == IF signed THEN Tail(t) ELSE t
        IN With(digitsRun(rest), LAMBDA whole :
           With(IF Len(rest) > Len(whole) /\ rest[Len(whole) + 1] = "."
                THEN digitsRun(SubSeq(rest, Len(whole) + 2, Len(rest)))
                ELSE <<>>,
                LAMBDA decimals :
                    With(1000 * DecimalValue(whole)
                             + DecimalValue(SubSeq(decimals \o <<"0", "0", "0">>, 1, 3)),
                         LAMBDA magnitude :
                             IF whole = <<>> /\ decimals = <<>> THEN 0
                             ELSE IF signed /\ t[1] = "-" THEN 0 - magnitude
                             ELSE magnitude))))

\* n.toFixed(2) of a number in thousandths: the sign of a negative number,
\* the whole part, the point and two decimals, rounded to the nearest.
\* (Where the third decimal is 5 the binary value of the number decides;
\* no number of the model has a third decimal of 5.)
toFixed2(n) ==
    With(((IF n < 0 THEN 0 - n ELSE n) + 5) \div 10, LAMBDA hundredths :
        (IF n < 0 THEN <<"-">> ELSE <<>>)
            \o NumberToString(hundredths \div 100) \o <<".">>
            \o <<DigitChars[((hundredths \div 10) % 10) + 1], DigitChars[(hundredths % 10) + 1]>>)

\* Math.abs
abs(n) == IF n < 0 THEN 0 - n ELSE n

\* entries.sort((a, b) => a.timestamp - b.timestamp): the comparison is a
\* consistent order, so the sort is the stable one.
sortByTimestamp(entries) ==
    LET rank == [j \in 1..Len(entries) |->
                   1 + Cardinality({k \in 1..Len(entries) :
                          \/ entries[k].timestamp < entries[j].timestamp
                          \/ entries[k].timestamp = entries[j].timestamp /\ k < j})] \o <<>>
    IN [i \in 1..Len(entries) |-> entries[CHOOSE j \in 1..Len(entries) : rank[j] = i]] \o <<>>

\* part_000 lines 112-114: the row is a buy, sell or benefit of the ticker.
isTransactionOf(row, ticker) ==
    trim(row.ticker) = ticker /\ trim(row.action) \in {<<"buy">>, <<"sell">>, <<"benefit">>}

\* part_000 lines 116-127: the entry of a row (the price is copied only).
transactionEntry(row) ==
    With(parseFloatOr0(row.quantity), LAMBDA quantityValue :
    With(trim(row.date), LAMBDA dateValue :
        [timestamp |-> parseDateToTimestamp(dateValue),
         dateLabel |-> formatDateLabel(dateValue),
         actionLabel |-> trim(row.action),
         quantity |-> abs(quantityValue),
         delta |-> IF trim(row.action) \in {<<"benefit">>, <<"buy">>}
                   THEN quantityValue ELSE 0 - quantityValue,
         fee |-> abs(parseFloatOr0(row.fee))]))

\* The running total that starts again at every entry.
withDelta(entries, cumulative) ==
    [i \in 1..Len(entries) |-> [cumulative |-> entries[i].delta] @@ entries[i]] \o <<>>

\* part_000 lines 133-140: the running total over the sorted entries.
RECURSIVE withCumulative(_, _)
withCumulative(entries, cumulative) ==
    IF entries = <<>> THEN <<>>
    ELSE <<[cumulative |-> cumulative + Head(entries).delta] @@ Head(entries)>>
             \o withCumulative(Tail(entries), cumulative + Head(entries).delta)

\* part_000 lines 98-141
transactionRows(rws, ticker) ==
    With(SelectSeq(rws, LAMBDA row : isTransactionOf(row, ticker)), LAMBDA kept :
    With([i \in 1..Len(kept) |-> transactionEntry(kept[i])] \o <<>>, LAMBDA filtered :
    With(sortByTimestamp(filtered), LAMBDA sorted : withCumulative(sorted, 0))))

\* part_000 lines 148-159: the row is a dividend or a tax of a security
\* whose name contains the ticker.
isDividendOf(row, ticker) ==
    includes(trim(row.name), ticker) /\ trim(row.action) \in {<<"dividend">>, <<"tax">>}

\* part_000 line 166: the rows that are left out.
dividendSkipAny(timestamp, dateLabel, amount) ==
    timestamp = 0 /\ dateLabel = <<>> /\ amount = 0

dividendSkip(timestamp, dateLabel, amount) ==
    timestamp = 0 \/ dateLabel = <<>> \/ amount = 0

\* part_000 lines 147-184: rows.forEach over the Map byDate (byLabel here),
\* the groups in the order their labels were first set.
RECURSIVE dividendGroups(_, _, _)
dividendGroups(rws, ticker, byLabel) ==
    IF rws = <<>> THEN byLabel
    ELSE With(Head(rws), LAMBDA row :
         With(trim(row.date), LAMBDA dateValue :
         With(parseDateToTimestamp(dateValue), LAMBDA timestamp :
         With(formatDateLabel(dateValue), LAMBDA dateLabel :
         With(abs(parseFloatOr0(row.quantity)), LAMBDA amount :
             LET at == {i \in 1..Len(byLabel) : byLabel[i].dateLabel = dateLabel}
                 existing == IF at = {}
                             THEN [timestamp |-> timestamp, dateLabel |-> dateLabel,
                                   dividend |-> 0, tax |-> 0]
                             ELSE byLabel[CHOOSE i \in at : TRUE]
                 updated == IF trim(row.action) = <<"dividend">>
                            THEN [existing EXCEPT !.dividend = @ + amount]
                            ELSE [existing EXCEPT !.tax = @ + amount]
             IN With(IF \/ ~isDividendOf(row, ticker)
                        \/ dividendSkip(timestamp, dateLabel, amount)
                     THEN byLabel
                     ELSE IF at = {} THEN Append(byLabel, updated)
                     ELSE [byLabel EXCEPT ![CHOOSE i \in at : TRUE] = updated],
                     LAMBDA next : dividendGroups(Tail(rws), ticker, next)))))))

\* part_000 lines 144-192
dividendRows(rws, ticker) ==
    With(dividendGroups(rws, ticker, <<>>), LAMBDA groups :
    With(sortByTimestamp(groups), LAMBDA sorted :
        [i \in 1..Len(sorted) |-> [net |-> sorted[i].dividend - sorted[i].tax] @@ sorted[i]]
            \o <<>>))

\* part_000 lines 194-204
RECURSIVE dividendTotals(_)
dividendTotals(groups) ==
    IF groups = <<>> THEN [dividend |-> 0, tax |-> 0, net |-> 0]
    ELSE With(dividendTotals(SubSeq(groups, 1, Len(groups) - 1)), LAMBDA acc :
             LET row == groups[Len(groups)] IN
             [dividend |-> acc.dividend + row.dividend, tax |-> acc.tax + row.tax,
              net |-> acc.net + row.net])

\* App.tsx lines 273-282: the symbols of the rows, no id of digits only,
\* each once, sorted.
uniqueSymbols(rws) ==
    With({v \in {trim(rws[i].ticker) : i \in 1..Len(rws)} : v # <<>> /\ ~AllDigits(v)},
         LAMBDA listed :
             [i \in 1..Cardinality(listed) |->
                 CHOOSE v \in listed :
                     Cardinality({w \in listed : localeCompare(w, v) < 0}) = i - 1] \o <<>>)

\* What one row adds to a total of the symbol, with the fee and the
\* amounts of dividends and taxes taken as they are signed in the row.
accumulateSigned(row, symbol, what) ==
    With(parseFloatOr0(row.quantity), LAMBDA amount :
    With(trim(row.action), LAMBDA actionType :
        LET own == trim(row.ticker) = symbol
            named == includes(trim(row.name), symbol)
        IN CASE what = "quantity" ->
                    IF own /\ actionType \in {<<"buy">>, <<"benefit">>} THEN amount
                    ELSE IF own /\ actionType = <<"sell">> THEN 0 - amount
                    ELSE 0
             [] what = "fees" ->
                    IF own THEN parseFloatOr0(row.fee) ELSE 0
             [] what = "dividends" ->
                    IF actionType = <<"dividend">> /\ named THEN amount ELSE 0
             [] what = "taxes" ->
                    IF actionType = <<"tax">> /\ named THEN amount ELSE 0))
\* App.tsx lines 291-326: what one row adds to a total of the symbol.
accumulate(row, symbol, what) ==
    With(parseFloatOr0(row.quantity), LAMBDA amount :
    With(trim(row.action), LAMBDA actionType :
        LET own == trim(row.ticker) = symbol
            named == includes(trim(row.name), symbol)
        IN CASE what = "quantity" ->
                    IF own /\ actionType \in {<<"buy">>, <<"benefit">>} THEN amount
                    ELSE IF own /\ actionType = <<"sell">> THEN 0 - amount
                    ELSE 0
             [] what = "fees" ->
                    IF own THEN abs(parseFloatOr0(row.fee)) ELSE 0
             [] what = "dividends" ->
                    IF actionType = <<"dividend">> /\ named THEN abs(amount) ELSE 0
             [] what = "taxes" ->
                    IF actionType = <<"tax">> /\ named THEN abs(amount) ELSE 0))

\* The sum of a total of the symbol over the rows, in the order of the rows.
RECURSIVE sumOver(_, _, _)
sumOver(rws, symbol, what) ==
    IF rws = <<>> THEN 0
    ELSE With(sumOver(SubSeq(rws, 1, Len(rws) - 1), symbol, what), LAMBDA before :
             before + accumulate(rws[Len(rws)], symbol, what))

\* App.tsx lines 285-338: the rollup of one symbol.
rollup(rws, symbol) ==
    With(sumOver(rws, symbol, "quantity"), LAMBDA quantity :
    [TICKER |-> symbol,
     quantityText |-> toFixed2(quantity),
     rawQuantity |-> quantity,
     rawFees |-> sumOver(rws, symbol, "fees"),
     rawDividends |-> sumOver(rws, symbol, "dividends"),
     rawTaxes |-> sumOver(rws, symbol, "taxes")])

\* App.tsx lines 285-338 and 350-391: uniqueSymbols.map, the rollup of
\* every symbol; both memos compute it from the same symbols and rows.
rollups(rws) ==
    With(uniqueSymbols(rws), LAMBDA symbolSeq :
        [i \in 1..Len(symbolSeq) |-> rollup(rws, symbolSeq[i])] \o <<>>)

\* App.tsx lines 284-346
stocksTableData(allStocks, showOnlyActive) ==
    IF showOnlyActive
    THEN SelectSeq(allStocks, LAMBDA stock : parseFloatOr0(stock.quantityText) # 0)
    ELSE allStocks

\* numbers.reduce((sum, s) => sum + s, 0)
RECURSIVE reduceSum(_)
reduceSum(numbers) ==
    IF numbers = <<>> THEN 0
    ELSE reduceSum(SubSeq(numbers, 1, Len(numbers) - 1)) + numbers[Len(numbers)]

\* The ids the account-wide totals are keyed by.
OtherCredits == <<"9", "0", "0">>
CapitalGainsTax == <<"9", "9", "9", "2", "9", "8", "3">>

\* The three tests of a row made each on its own.
accountStepApart(acc, row) ==
    With(parseFloatOr0(row.proceeds), LAMBDA amount :
        [totalCashTransfers |->
             acc.totalCashTransfers
                 + (IF trim(row.action) = <<"transfer">> THEN abs(amount) ELSE 0),
         totalBenefitsAndOther |->
             acc.totalBenefitsAndOther
                 + (IF trim(row.ticker) = OtherCredits THEN abs(amount) ELSE 0),
         totalCapitalGainsTax |->
             acc.totalCapitalGainsTax
                 + (IF trim(row.ticker) = CapitalGainsTax THEN amount * (-1) ELSE 0)])

\* App.tsx lines 397-412: what one row adds to the account-wide totals.
accountStep(acc, row) ==
    With(parseFloatOr0(row.proceeds), LAMBDA amount :
        [totalCashTransfers |->
             acc.totalCashTransfers
                 + (IF trim(row.action) = <<"transfer">> THEN abs(amount) ELSE 0),
         totalBenefitsAndOther |->
             acc.totalBenefitsAndOther
                 + (IF trim(row.action) # <<"transfer">> /\ trim(row.ticker) = OtherCredits
                    THEN abs(amount) ELSE 0),
         totalCapitalGainsTax |->
             acc.totalCapitalGainsTax
                 + (IF trim(row.ticker) = CapitalGainsTax THEN amount * (-1) ELSE 0)])

\* App.tsx lines 393-413: rows.forEach over the three totals.
RECURSIVE accountTotals(_)
accountTotals(rws) ==
    IF rws = <<>>
    THEN [totalCashTransfers |-> 0, totalBenefitsAndOther |-> 0, totalCapitalGainsTax |-> 0]
    ELSE With(accountTotals(SubSeq(rws, 1, Len(rws) - 1)), LAMBDA acc :
              accountStep(acc, rws[Len(rws)]))

\* App.tsx lines 348-424
stocksSummary(allStocksData, rws) ==
    With(accountTotals(rws), LAMBDA account :
        [totalQuantity |->
             reduceSum([i \in 1..Len(allStocksData) |-> allStocksData[i].rawQuantity] \o <<>>),
         totalFees |->
             reduceSum([i \in 1..Len(allStocksData) |-> allStocksData[i].rawFees] \o <<>>),
         totalDividends |->
             reduceSum([i \in 1..Len(allStocksData) |-> allStocksData[i].rawDividends] \o <<>>),
         totalTaxes |->
             reduceSum([i \in 1..Len(allStocksData) |-> allStocksData[i].rawTaxes] \o <<>>),
         totalCashTransfers |-> account.totalCashTransfers,
         totalBenefitsAndOther |-> account.totalBenefitsAndOther,
         totalCapitalGainsTax |-> account.totalCapitalGainsTax])

\* The month of a timestamp, counted from year 0: getFullYear() and
\* getMonth().
monthOf(timestamp) ==
    With(CivilFromDays(timestamp), LAMBDA c : c.y * 12 + (c.m - 1))

\* App.tsx lines 468-479: the empty bucket of a month.
monthEntry(month) ==
    [monthKey |-> NumberToString(month \div 12) \o <<"-">>
                      \o padStart2(NumberToString((month % 12) + 1)),
     monthLabel |-> padStart2(NumberToString((month % 12) + 1)) \o <<"/">>
                        \o NumberToString(month \div 12),
     timestamp |-> DateOf(month \div 12, month % 12, 1),
     amount |-> 0,
     details |-> <<>>]

\* App.tsx line 449: the rows that are left out.
depositSkip(dateLabel, timestamp, amount) ==
    dateLabel = <<>> \/ timestamp = 0 \/ amount = 0

\* App.tsx lines 436-454: the deposits of the rows.
depositsOf(rws) ==
    With(SelectSeq(rws, LAMBDA row :
             /\ trim(row.ticker) = <<"9", "0", "0">>
             /\ ~depositSkip(formatDateLabel(trim(row.date)),
                             parseDateToTimestamp(trim(row.date)),
                             abs(parseFloatOr0(row.proceeds)))),
         LAMBDA kept :
             [i \in 1..Len(kept) |->
                 [dateLabel |-> formatDateLabel(trim(kept[i].date)),
                  timestamp |-> parseDateToTimestamp(trim(kept[i].date)),
                  amount |-> abs(parseFloatOr0(kept[i].proceeds))]] \o <<>>)

\* App.tsx lines 482-493: the deposits of a month added to its bucket.
RECURSIVE fillMonth(_, _)
fillMonth(entry, deposits) ==
    IF deposits = <<>> THEN entry
    ELSE With(IF monthEntry(monthOf(Head(deposits).timestamp)).monthKey = entry.monthKey
              THEN [entry EXCEPT !.amount = @ + Head(deposits).amount,
                                 !.details = Append(@, [dateLabel |-> Head(deposits).dateLabel,
                                                        amount |-> Head(deposits).amount])]
              ELSE entry,
              LAMBDA filled : fillMonth(filled, Tail(deposits)))

\* The months from the first deposit's on, without the last deposit's.
monthsBeforeLast(first, last) == [i \in 1..(last - first) |-> first + i - 1] \o <<>>

\* App.tsx lines 466-467: the months from the first deposit's to the last
\* deposit's.
monthsThrough(first, last) == [i \in 1..(last - first + 1) |-> first + i - 1] \o <<>>

\* App.tsx lines 426-496
depositsByMonth(rws) ==
    With(depositsOf(rws), LAMBDA pushed :
    With(sortByTimestamp(pushed), LAMBDA deposits :
        IF Len(deposits) = 0 THEN <<>>
        ELSE With(monthsThrough(monthOf(deposits[1].timestamp),
                                monthOf(deposits[Len(deposits)].timestamp)), LAMBDA months :
             With([i \in 1..Len(months) |->
                      With(monthEntry(months[i]), LAMBDA empty : fillMonth(empty, deposits))]
                      \o <<>>,
                  LAMBDA buckets : sortByTimestamp(buckets)))))

----------------------------------------------------------------------------
(* The application: files are uploaded, tabs and securities are chosen *)

MaxLedger == 4

TickerAB == <<"A", "B">>
NameAB == <<"a", " ", "A", "B">>
Deposits900 == <<"9", "0", "0">>

\* The rows of the files: transactions of one security in and out of
\* order, with a date that is no date and a quantity that is no number;
\* another security; dividends and taxes on one day written three ways and
\* on no day; deposits months apart, in two years and without a date.
LedgerRows ==
    <<LedgerRow(TickerAB, TickerAB, <<"buy">>, <<"1", "5", "/", "1", "/", "2", "0", "2", "4">>,
                <<"1", "0">>, <<"2">>, <<>>),
      LedgerRow(TickerAB, TickerAB, <<"sell">>, <<"1", "/", "2", "/", "2", "0", "2", "4">>,
                <<"3">>, <<"-", "1">>, <<>>),
      LedgerRow(TickerAB, TickerAB, <<"benefit">>, <<"3", "/", "4", "/", "2", "0", "2", "4">>,
                <<"1">>, <<>>, <<>>),
      LedgerRow(<<" ", "A", "B">>, TickerAB, <<"buy">>, <<"a", "b">>,
                <<"3", "x">>, <<>>, <<>>),
      LedgerRow(<<"X">>, <<"X">>, <<"sell">>,
                <<"2", "0", "2", "4", "-", "0", "2", "-", "0", "1">>, <<"-", "3">>, <<>>, <<>>),
      LedgerRow(<<"1", "2">>, NameAB, <<"dividend">>, <<"1", "/", "2", "/", "2", "0", "2", "4">>,
                <<"5">>, <<>>, <<>>),
      LedgerRow(<<"1", "2">>, NameAB, <<"dividend">>,
                <<"2", "0", "2", "4", "-", "0", "2", "-", "0", "1">>, <<"2">>, <<>>, <<>>),
      LedgerRow(<<"1", "2">>, NameAB, <<"tax">>,
                <<"0", "1", ".", "0", "2", ".", "2", "0", "2", "4">>, <<"-", "1">>, <<>>, <<>>),
      LedgerRow(<<"1", "2">>, NameAB, <<"dividend">>, <<"a", "b">>, <<"4">>, <<>>, <<>>),
      LedgerRow(Deposits900, <<>>, <<"other">>, <<"1", "5", "/", "1", "/", "2", "0", "2", "4">>,
                <<>>, <<>>, <<"1", "0", "0">>),
      LedgerRow(Deposits900, <<>>, <<"other">>, <<"3", "/", "4", "/", "2", "0", "2", "4">>,
                <<>>, <<>>, <<"-", "5", "0">>),
      LedgerRow(Deposits900, <<>>, <<"other">>, <<>>, <<>>, <<>>, <<"7">>),
      LedgerRow(Deposits900, <<>>, <<"other">>,
                <<"2", "0", "2", "3", "-", "1", "2", "-", "3", "1">>, <<>>, <<>>, <<"2", "0">>)>>

\* The rows of a set of indices, in ascending order of index.
InOrder(picked) ==
    [i \in 1..Cardinality(picked) |->
        LedgerRows[CHOOSE j \in picked : Cardinality({k \in picked : k < j}) = i - 1]] \o <<>>

\* The rows of an upload: up to MaxLedger of these rows, in the order of
\* the list (the transactions in order of time) or in the reverse order.
LedgerInputs ==
    UNION {{InOrder(picked), Reverse(InOrder(picked))} :
               picked \in {p \in SUBSET (1..Len(LedgerRows)) : Cardinality(p) <= MaxLedger}}

\* The rows of an account: cash transfers with and without the id of the
\* other credits, another credit, capital-gains tax as a withdrawal and as
\* a transfer, a purchase with its proceeds, a transfer between white
\* space with an amount that ends in a letter, the sale of what was
\* purchased, a benefit of less than a hundredth, and a sale of another
\* security.
AccountRows ==
    <<LedgerRow(OtherCredits, <<>>, <<"transfer">>, <<"1", "/", "2", "/", "2", "0", "2", "4">>,
                <<>>, <<>>, <<"1", "0", "0">>),
      LedgerRow(OtherCredits, <<>>, <<"other">>, <<>>, <<>>, <<>>, <<"-", "5", "0">>),
      LedgerRow(<<>>, <<>>, <<"transfer">>, <<>>, <<>>, <<>>, <<"-", "3", "0">>),
      LedgerRow(CapitalGainsTax, <<>>, <<"tax">>, <<>>, <<>>, <<>>, <<"-", "1", "2">>),
      LedgerRow(CapitalGainsTax, <<>>, <<"transfer">>, <<>>, <<>>, <<>>, <<"4">>),
      LedgerRow(TickerAB, TickerAB, <<"buy">>, <<>>, <<"1", "0">>, <<"2">>, <<"-", "9">>),
      LedgerRow(<<" ", "9", "0", "0", " ">>, <<>>, <<" ", "transfer">>, <<>>, <<>>, <<>>,
                <<" ", "8", "x">>),
      LedgerRow(TickerAB, TickerAB, <<"sell">>, <<>>, <<"1", "0">>, <<>>, <<>>),
      LedgerRow(TickerAB, TickerAB, <<"benefit">>, <<>>, <<"0", ".", "0", "0", "4">>, <<>>, <<>>),
      LedgerRow(<<"X">>, <<"X">>, <<"sell">>, <<>>, <<"1", ".", "5", "x">>, <<>>, <<>>)>>

\* The rows of an upload of the account: up to MaxLedger of these rows, in
\* the order of the list or in the reverse order.
AccountInputs ==
    UNION {{[i \in 1..Cardinality(picked) |->
                AccountRows[CHOOSE j \in picked : Cardinality({k \in picked : k < j}) = i - 1]]
                \o <<>>,
            Reverse([i \in 1..Cardinality(picked) |->
                AccountRows[CHOOSE j \in picked : Cardinality({k \in picked : k < j}) = i - 1]]
                \o <<>>)} :
               picked \in {p \in SUBSET (1..Len(AccountRows)) : Cardinality(p) <= MaxLedger}}

\* App.tsx line 270: no security is selected, or one is.
NoTicker == [selected |-> FALSE, ticker |-> <<>>]
Selected(symbol) == [selected |-> TRUE, ticker |-> symbol]

\* What a render computes from the state: the useMemo values of App and,
\* while a security is selected, those of StockDetail.
Rendered(rws, selection, activeTab, showOnlyActive) ==
    With(rollups(rws), LAMBDA allStocks :
    With(IF selection.selected THEN dividendRows(rws, selection.ticker) ELSE <<>>,
         LAMBDA dividends :
             [tab |-> activeTab,
              showOnlyActive |-> showOnlyActive,
              stocks |-> stocksTableData(allStocks, showOnlyActive),
              summary |-> stocksSummary(allStocks, rws),
              deposits |-> depositsByMonth(rws),
              transactions |-> IF selection.selected
                               THEN transactionRows(rws, selection.ticker)
                               ELSE <<>>,
              dividends |-> dividends,
              totals |-> dividendTotals(dividends)]))

\* App.tsx lines 264-270
InitLedger ==
    /\ InitNoCache /\ InitIdle /\ InitNoTable
    /\ focus = "ledger"
    /\ rows = <<>>
    /\ selectedTicker = NoTicker
    /\ screen = Rendered(<<>>, NoTicker, "summary", FALSE)

LedgerFrame ==
    UNCHANGED <<now, cacheVars, storageMode, inflight, nextId, lastCall, lastDone,
                netOk, detailVars, batchVars, focus, raw, tableVars>>

\* App.tsx lines 583-617: handleFiles sets the rows parsed from the files.
handleFiles ==
    \E allRows \in (IF focus = "account" THEN AccountInputs ELSE LedgerInputs) :
        /\ rows = <<>>
        /\ ~selectedTicker.selected
        /\ rows' = allRows
        /\ screen' = Rendered(allRows, selectedTicker, screen.tab, screen.showOnlyActive)
        /\ UNCHANGED selectedTicker
        /\ LedgerFrame

\* App.tsx lines 623-627
handleClear ==
    /\ ~selectedTicker.selected
    /\ rows # <<>>
    /\ rows' = <<>>
    /\ screen' = Rendered(<<>>, selectedTicker, screen.tab, screen.showOnlyActive)
    /\ UNCHANGED selectedTicker
    /\ LedgerFrame

\* App.tsx lines 749-769: a tab is clicked.
setActiveTab ==
    \E tab \in {"summary", "account", "table"} :
        /\ ~selectedTicker.selected
        /\ tab # screen.tab
        /\ screen' = Rendered(rows, selectedTicker, tab, screen.showOnlyActive)
        /\ UNCHANGED <<rows, selectedTicker>>
        /\ LedgerFrame

\* App.tsx line 788: the check box of the summary tab.
setShowOnlyActive ==
    /\ ~selectedTicker.selected
    /\ screen.tab = "summary"
    /\ screen' = Rendered(rows, selectedTicker, screen.tab, ~screen.showOnlyActive)
    /\ UNCHANGED <<rows, selectedTicker>>
    /\ LedgerFrame

\* App.tsx lines 505-512: the ticker of a row of the stocks table is clicked.
setSelectedTicker ==
    \E i \in 1..Len(screen.stocks) :
        /\ ~selectedTicker.selected
        /\ screen.tab = "summary"
        /\ selectedTicker' = Selected(screen.stocks[i].TICKER)
        /\ screen' = Rendered(rows, selectedTicker', screen.tab, screen.showOnlyActive)
        /\ UNCHANGED rows
        /\ LedgerFrame

\* App.tsx line 705: onBack
onBack ==
    /\ selectedTicker.selected
    /\ selectedTicker' = NoTicker
    /\ screen' = Rendered(rows, NoTicker, screen.tab, screen.showOnlyActive)
    /\ UNCHANGED rows
    /\ LedgerFrame

NextLedger ==
    \/ handleFiles
    \/ handleClear
    \/ setActiveTab
    \/ setShowOnlyActive
    \/ setSelectedTicker
    \/ onBack

SpecLedger == InitLedger /\ [][NextLedger]_vars

\* The same application, the files being those of the account.
InitAccount ==
    /\ InitNoCache /\ InitIdle /\ InitNoTable
    /\ focus = "account"
    /\ rows = <<>>
    /\ selectedTicker = NoTicker
    /\ screen = Rendered(<<>>, NoTicker, "summary", FALSE)

SpecAccount == InitAccount /\ [][NextLedger]_vars

----------------------------------------------------------------------------
(* Properties of the rows the table computes *)

\* The filters that constrain: those whose text is not empty once trimmed.
ActiveFilters ==
    {i \in 1..Len(filters) : trim(toLowerCase(filters[i].value)) # <<>>}

\* The row's cell under filter i, lower-cased and trimmed, contains the
\* filter's text, lower-cased and trimmed, as a substring.
Contains(row, i) ==
    LET cell == trim(toLowerCase(StringOf(CellAt(row, filters[i].key))))
        part == trim(toLowerCase(filters[i].value))
    IN \E at \in 0..(Len(cell) - Len(part)) :
           \A k \in 1..Len(part) : cell[at + k] = part[k]

KeptRows == {i \in 1..Len(tableData) : \A f \in ActiveFilters : Contains(tableData[i], f)}

\* C13: the rows computed are exactly the rows given that contain, in every
\* column with a filter that is not empty once trimmed, the filter's
\* lower-cased trimmed text in the cell's lower-cased trimmed text; filters
\* of several columns all have to hold, and an empty filter keeps every row.
C13_Filtering ==
    queried.phase = "rendered" =>
        /\ {queried.result[i] : i \in 1..Len(queried.result)} = {tableData[i] : i \in KeptRows}
        /\ Len(queried.result) = Cardinality(KeptRows)

\* Two filters constrain, some rows are kept and some dropped, and a kept
\* row matches in another case than the filter's.
C13_Witness ==
    /\ queried.phase = "rendered"
    /\ Cardinality(ActiveFilters) = 2
    /\ Len(queried.result) > 0
    /\ Len(queried.result) < Len(tableData)
    /\ \E i \in 1..Len(queried.result) : \E f \in ActiveFilters :
           ~includes(StringOf(CellAt(queried.result[i], filters[f].key)), filters[f].value)

\* The rows given that satisfy the filters, in the order given.
KeptSeq == SelectSeq(tableData, LAMBDA row : \A f \in ActiveFilters : Contains(row, f))

HasComparator == LET column == findColumn(columns, sortColumn) IN
                 column.found /\ column.col.sortComparator # "undefined"

Coerces(row) == ~Number(StringOf(CellAt(row, sortColumn))).nan

\* The cells of the sort column are compared one way throughout: by the
\* column's comparator, all as numbers or all as texts.
OneWay(rowSeq) ==
    \/ HasComparator
    \/ \A i \in 1..Len(rowSeq) : Coerces(rowSeq[i])
    \/ \A i \in 1..Len(rowSeq) : ~Coerces(rowSeq[i])

\* C14: without a sort column and direction the rows computed are the
\* filtered rows in the order given; with them they are the filtered rows
\* reordered, two rows are compared by the column's comparator on the raw
\* cells when it has one, else as numbers when both texts coerce and as
\* locale texts when not, the descending comparison is the negation of the
\* ascending one for every pair, and rows compared one way come out in
\* that order.
C14_Comparison ==
    queried.phase = "rendered" =>
        LET result == queried.result
            asc == SortContext(columns, sortColumn, "asc")
            desc == SortContext(columns, sortColumn, "desc")
            used == SortContext(columns, sortColumn, sortDirection)
        IN IF Unsorted THEN result = KeptSeq
           ELSE /\ Len(result) = Len(KeptSeq)
                /\ {result[i] : i \in 1..Len(result)} = {KeptSeq[i] : i \in 1..Len(KeptSeq)}
                /\ \A i, j \in 1..Len(tableData) :
                       LET a == tableData[i]
                           b == tableData[j]
                           aValue == CellAt(a, sortColumn)
                           bValue == CellAt(b, sortColumn)
                           ascending == compare(asc, a, b)
                       IN /\ compare(desc, a, b) = 0 - ascending
                          /\ ascending =
                                 IF HasComparator THEN byDate(aValue, bValue)
                                 ELSE IF Coerces(a) /\ Coerces(b)
                                 THEN Number(StringOf(aValue)).n - Number(StringOf(bValue)).n
                                 ELSE localeCompare(StringOf(aValue), StringOf(bValue))
                /\ OneWay(result) =>
                       \A i, j \in 1..Len(result) :
                           i < j => compare(used, result[i], result[j]) <= 0

\* Rows are filtered, then sorted descending without a comparator of the
\* column: a row is dropped, the order changes, one pair is compared as
\* numbers and another as texts.
C14_Witness ==
    /\ queried.phase = "rendered"
    /\ sortColumn = "qty" /\ sortDirection = "desc"
    /\ Len(queried.result) < Len(tableData)
    /\ queried.result # KeptSeq
    /\ \E i, j \in 1..Len(queried.result) :
           Coerces(queried.result[i]) /\ Coerces(queried.result[j])
           /\ compare(SortContext(columns, sortColumn, "asc"),
                      queried.result[i], queried.result[j]) # 0
    /\ \E i \in 1..Len(queried.result) : ~Coerces(queried.result[i])

\* C15: computing the rows twice with the same arguments gives the same
\* sequence, computing them from the rows computed gives those rows again,
\* rows that compare equal under the sort keep the order they were given
\* in, and the rows given are never reordered or modified.
C15_PureRepeatable ==
    /\ [](queried.phase = "twice" => queried.second = queried.result)
    /\ [](queried.phase = "requeried" => queried.again = queried.result)
    /\ [](queried.phase = "rendered" /\ ~Unsorted =>
             \A i, j \in 1..Len(queried.result) :
                 (/\ i < j
                  /\ compare(SortContext(columns, sortColumn, sortDirection),
                             queried.result[i], queried.result[j]) = 0)
                     => queried.result[i].id < queried.result[j].id)
    /\ [][tableData' = tableData]_vars

----------------------------------------------------------------------------
(* Properties of the dates *)

\* The trimmed text is a day, month and year, a year, month and day, or a
\* serial number the spreadsheet has a date for.
Parseable(text) ==
    LET t == trim(text) IN
    \/ dmyMatch(t).ok
    \/ ymdMatch(t).ok
    \/ numericMatch(t) /\ SerialOf(t) <= MaxSerial

\* C18: parseDateToTimestamp and formatDateLabel return for every text; a
\* text that is empty or no date gives the timestamp 0 and the empty
\* label; a day written day first and written year first gives one
\* timestamp and one label.
C18_DateParsing ==
    /\ screen.tab = "dates" /\ screen.timestamp.done =>
           /\ screen.timestamp.a \in Int /\ screen.timestamp.b \in Int
           /\ ~Parseable(screen.input.a) => screen.timestamp.a = 0
           /\ screen.input.sameDay => screen.timestamp.a = screen.timestamp.b
    /\ screen.tab = "dates" /\ screen.label.done =>
           /\ ~Parseable(screen.input.a) => screen.label.a = <<>>
           /\ screen.input.sameDay => screen.label.a = screen.label.b

----------------------------------------------------------------------------
(* Properties of the views of the ledger *)

\* The rows of the ledger that are a buy, sell or benefit of the selected
\* security.
OwnTransactions ==
    {i \in 1..Len(rows) :
        /\ trim(rows[i].ticker) = selectedTicker.ticker
        /\ trim(rows[i].action) \in {<<"buy">>, <<"sell">>, <<"benefit">>}}

\* The signed quantity of a row: a buy and a benefit add, a sell subtracts.
Signed(row) ==
    IF trim(row.action) = <<"sell">> THEN 0 - parseFloatOr0(row.quantity)
    ELSE parseFloatOr0(row.quantity)

\* The sum of a sequence of numbers.
RECURSIVE SumSeq(_)
SumSeq(numbers) ==
    IF numbers = <<>> THEN 0 ELSE Head(numbers) + SumSeq(Tail(numbers))

OwnDividends ==
    {i \in 1..Len(rows) :
        /\ includes(trim(rows[i].name), selectedTicker.ticker)
        /\ trim(rows[i].action) \in {<<"dividend">>, <<"tax">>}
        /\ parseFloatOr0(rows[i].quantity) # 0}

\* The rows of the ledger that are deposits, with an amount.
DepositRows ==
    {i \in 1..Len(rows) :
        trim(rows[i].ticker) = Deposits900 /\ parseFloatOr0(rows[i].proceeds) # 0}

\* C17: a row whose date is empty or no date is in every view it belongs
\* to, before the rows with a date: in the transaction history and in the
\* dividend history of the selected security, and in the deposit buckets.
C17_UnknownDatesKept ==
    /\ selectedTicker.selected =>
           /\ Len(screen.transactions) = Cardinality(OwnTransactions)
           /\ \A k, m \in 1..Len(screen.transactions) :
                  (/\ screen.transactions[k].timestamp = 0
                   /\ screen.transactions[m].timestamp # 0) => k < m
           /\ \A i \in OwnDividends :
                  ~Parseable(rows[i].date) =>
                      \E k \in 1..Len(screen.dividends) :
                          /\ screen.dividends[k].dateLabel = formatDateLabel(trim(rows[i].date))
                          /\ \A m \in 1..Len(screen.dividends) :
                                 Parseable(screen.dividends[m].dateLabel) => k < m
    /\ \A i \in DepositRows :
           ~Parseable(rows[i].date) =>
               \E k \in 1..Len(screen.deposits) :
                   \E d \in 1..Len(screen.deposits[k].details) :
                       /\ screen.deposits[k].details[d].amount = abs(parseFloatOr0(rows[i].proceeds))
                       /\ screen.deposits[k].details[d].dateLabel
                              = formatDateLabel(trim(rows[i].date))

\* The rows that are an action of this type on a security whose name
\* contains the selected ticker, with this date label.
DividendRowsOf(actionType, dateLabel) ==
    SelectSeq(rows, LAMBDA row :
        /\ includes(trim(row.name), selectedTicker.ticker)
        /\ trim(row.action) = actionType
        /\ formatDateLabel(trim(row.date)) = dateLabel)

\* The sum of the absolute amounts of rows.
AmountOf(rowSeq) ==
    SumSeq([i \in 1..Len(rowSeq) |-> abs(parseFloatOr0(rowSeq[i].quantity))] \o <<>>)

DividendLabels ==
    {formatDateLabel(trim(rows[i].date)) :
        i \in {j \in 1..Len(rows) :
                  /\ includes(trim(rows[j].name), selectedTicker.ticker)
                  /\ trim(rows[j].action) \in {<<"dividend">>, <<"tax">>}}}

\* C19: the dividend history of the selected security has exactly one
\* group for every date label of its dividend and tax rows, with the sum of
\* the absolute dividend amounts, the sum of the absolute tax amounts and
\* their difference as net; the totals are the sums over the groups.
C19_DividendGroups ==
    selectedTicker.selected =>
        LET groups == screen.dividends IN
        /\ {groups[k].dateLabel : k \in 1..Len(groups)} = DividendLabels
        /\ Len(groups) = Cardinality(DividendLabels)
        /\ \A k \in 1..Len(groups) :
               /\ groups[k].dividend = AmountOf(DividendRowsOf(<<"dividend">>, groups[k].dateLabel))
               /\ groups[k].tax = AmountOf(DividendRowsOf(<<"tax">>, groups[k].dateLabel))
               /\ groups[k].net = groups[k].dividend - groups[k].tax
        /\ screen.totals.dividend = SumSeq([k \in 1..Len(groups) |-> groups[k].dividend] \o <<>>)
        /\ screen.totals.tax = SumSeq([k \in 1..Len(groups) |-> groups[k].tax] \o <<>>)
        /\ screen.totals.net = SumSeq([k \in 1..Len(groups) |-> groups[k].net] \o <<>>)

\* The deposits with a date, and the month of one: its year times 12 and
\* its month from 0.
DatedDeposits == {i \in DepositRows : parseDateToTimestamp(trim(rows[i].date)) # 0}

DepositMonth(i) ==
    LET c == CivilFromDays(parseDateToTimestamp(trim(rows[i].date))) IN c.y * 12 + c.m - 1

\* C20: with no dated deposit there is no bucket; else the buckets are the
\* months from the earliest deposit's to the latest deposit's, one each in
\* ascending order, a bucket's details are the deposits of its month and
\* its amount is their sum, 0 with no detail for a month without deposit.
C20_DepositBuckets ==
    LET buckets == screen.deposits
        first == CHOOSE m \in {DepositMonth(i) : i \in DatedDeposits} :
                     \A i \in DatedDeposits : m <= DepositMonth(i)
        last == CHOOSE m \in {DepositMonth(i) : i \in DatedDeposits} :
                    \A i \in DatedDeposits : m >= DepositMonth(i)
    IN IF DatedDeposits = {} THEN buckets = <<>>
       ELSE /\ Len(buckets) = last - first + 1
            /\ \A k \in 1..Len(buckets) :
                   LET month == first + k - 1
                       own == {i \in DatedDeposits : DepositMonth(i) = month}
                       amounts == [d \in 1..Len(buckets[k].details) |->
                                      buckets[k].details[d].amount] \o <<>>
                   IN /\ buckets[k].timestamp = DaysFromCivil(<<month \div 12, (month % 12) + 1, 1>>)
                      /\ buckets[k].monthKey = NumberToString(month \div 12) \o <<"-">>
                                                   \o padStart2(NumberToString((month % 12) + 1))
                      /\ Len(buckets[k].details) = Cardinality(own)
                      /\ \A i \in own :
                             Cardinality({d \in 1..Len(amounts) :
                                 amounts[d] = abs(parseFloatOr0(rows[i].proceeds))})
                             = Cardinality({j \in own : abs(parseFloatOr0(rows[j].proceeds))
                                                     = abs(parseFloatOr0(rows[i].proceeds))})
                      /\ buckets[k].amount = SumSeq(amounts)
                      /\ own = {} => buckets[k].amount = 0 /\ buckets[k].details = <<>>

\* A deposit in April and one in January of a year, uploaded in that
\* order: four buckets, 100, 0, 0 and 50, in thousandths.
C20_Witness ==
    /\ Len(rows) = 2
    /\ Len(screen.deposits) = 4
    /\ [k \in 1..4 |-> screen.deposits[k].amount] = <<100000, 0, 0, 50000>>
    /\ [k \in 1..4 |-> screen.deposits[k].monthKey]
           = << <<"2", "0", "2", "4", "-", "0", "1">>, <<"2", "0", "2", "4", "-", "0", "2">>,
                <<"2", "0", "2", "4", "-", "0", "3">>, <<"2", "0", "2", "4", "-", "0", "4">> >>
    /\ screen.deposits[2].details = <<>>
    /\ parseDateToTimestamp(rows[1].date) > parseDateToTimestamp(rows[2].date)

----------------------------------------------------------------------------
(* Properties of the account-wide totals *)

IsTransfer(i) == trim(rows[i].action) = <<"transfer">>
LocalAmount(i) == parseFloatOr0(rows[i].proceeds)

TransfersOfRows ==
    SumSeq([i \in 1..Len(rows) |-> IF IsTransfer(i) THEN abs(LocalAmount(i)) ELSE 0] \o <<>>)

CapitalGainsOfRows ==
    SumSeq([i \in 1..Len(rows) |->
               IF trim(rows[i].ticker) = CapitalGainsTax THEN 0 - LocalAmount(i) ELSE 0] \o <<>>)

\* C21 as stated: every cash-transfer row adds the absolute local amount to
\* the total deposits, every row tagged 900 adds it to the benefits and
\* other credits, every row tagged 9992983 adds the negated local amount to
\* the capital-gains tax, and no other row changes a total.
C21_EveryTaggedRow ==
    /\ screen.summary.totalCashTransfers = TransfersOfRows
    /\ screen.summary.totalBenefitsAndOther =
           SumSeq([i \in 1..Len(rows) |->
                      IF trim(rows[i].ticker) = OtherCredits THEN abs(LocalAmount(i)) ELSE 0]
                      \o <<>>)
    /\ screen.summary.totalCapitalGainsTax = CapitalGainsOfRows

\* C21, amended: as above, but a row tagged 900 adds its absolute local
\* amount to the benefits and other credits only when it is no cash
\* transfer.
C21_AccountTotals ==
    /\ screen.summary.totalCashTransfers = TransfersOfRows
    /\ screen.summary.totalBenefitsAndOther =
           SumSeq([i \in 1..Len(rows) |->
                      IF trim(rows[i].ticker) = OtherCredits /\ ~IsTransfer(i)
                      THEN abs(LocalAmount(i)) ELSE 0] \o <<>>)
    /\ screen.summary.totalCapitalGainsTax = CapitalGainsOfRows

C21_Witness ==
    /\ \E i \in 1..Len(rows) :
          IsTransfer(i) /\ trim(rows[i].ticker) = OtherCredits /\ LocalAmount(i) # 0
    /\ \E i \in 1..Len(rows) : ~IsTransfer(i) /\ trim(rows[i].ticker) = OtherCredits
    /\ \E i \in 1..Len(rows) : trim(rows[i].ticker) = CapitalGainsTax
    /\ screen.summary.totalCashTransfers > 0
    /\ screen.summary.totalBenefitsAndOther > 0
    /\ screen.summary.totalCapitalGainsTax > 0

----------------------------------------------------------------------------
(* Properties of the stocks table *)

\* The rollups of a list whose signed quantity is not zero, in the order of
\* the list.
NonZero(stocks) == SelectSeq(stocks, LAMBDA stock : stock.rawQuantity # 0)

\* C22: when the option is switched on the stocks table is left with
\* exactly the rollups of the unfiltered list whose signed quantity is not
\* zero, in the same order and with the same values; switching it on or
\* off changes neither a rollup nor the totals of the summary.
C22_ActiveOnly ==
    [][/\ (rows' = rows /\ ~screen.showOnlyActive /\ screen'.showOnlyActive) =>
              /\ screen'.stocks = NonZero(screen.stocks)
              /\ screen'.summary = screen.summary
       /\ (rows' = rows /\ screen.showOnlyActive /\ ~screen'.showOnlyActive) =>
              /\ screen.stocks = NonZero(screen'.stocks)
              /\ screen'.summary = screen.summary]_vars

----------------------------------------------------------------------------
(* Properties of the two stores of the cache *)

\* A call starts in this step.
Calls(kind, symbol) ==
    nextId' = nextId + 1 /\ lastCall'.kind = kind /\ lastCall'.symbol = symbol

\* The transient map has no entry for the id, or one of 5 minutes or more.
StaleTransient(mem, symbol) ==
    mem[symbol].kind # "entry" \/ now - mem[symbol].timestamp >= CACHE_DURATION

\* The persistent store holds under the key an entry younger than 24 hours.
FreshPersistent(key) ==
    /\ storageMode # "denied"
    /\ localStorage[key].kind = "json"
    /\ now - JSONparse(localStorage[key]).timestamp < LOCAL_STORAGE_CACHE_DURATION

\* C23: a call that finds the transient entry missing or 5 minutes old and
\* a persistent entry younger than 24 hours returns that entry's data and
\* sets the transient entry to the persistent one, data and capture time
\* as they are; the persistent store and the other transient map do not
\* change and no request is issued.
C23_BackFill ==
    [][\A symbol \in Symbols :
          /\ (/\ Calls("price", symbol)
              /\ StaleTransient(cache, symbol)
              /\ FreshPersistent(priceKey(symbol))) =>
                 /\ lastCall'.via = "local"
                 /\ lastCall'.value = JSONparse(localStorage[priceKey(symbol)]).data
                 /\ cache' = [cache EXCEPT ![symbol] = JSONparse(localStorage[priceKey(symbol)])]
                 /\ UNCHANGED <<localStorage, historicalCache, inflight>>
          /\ (/\ Calls("history", symbol)
              /\ StaleTransient(historicalCache, symbol)
              /\ FreshPersistent(historyKey(symbol))) =>
                 /\ lastCall'.via = "local"
                 /\ lastCall'.value = JSONparse(localStorage[historyKey(symbol)]).data
                 /\ historicalCache' = [historicalCache EXCEPT ![symbol] =
                                           JSONparse(localStorage[historyKey(symbol)])]
                 /\ UNCHANGED <<localStorage, cache, inflight>>]_vars

\* A price call at 24 hours less a minute was answered from the persistent
\* entry captured at 0, and the transient entry now carries that time.
C23_Witness ==
    /\ lastCall.kind = "price" /\ lastCall.via = "local"
    /\ now = LOCAL_STORAGE_CACHE_DURATION - Minute
    /\ cache[lastCall.symbol] = JSONparse(localStorage[priceKey(lastCall.symbol)])
    /\ cache[lastCall.symbol].timestamp = 0

\* A price call for the id is in flight.
PriceInFlight(symbol) == \E c \in inflight : c.kind = "price" /\ c.symbol = symbol

\* A price call that starts while another one for the id is in flight and
\* neither store has a fresh entry issues a request of its own.
OwnRequest ==
    \A symbol \in Symbols :
        (/\ Calls("price", symbol)
         /\ PriceInFlight(symbol)
         /\ StaleTransient(cache, symbol)
         /\ ~FreshPersistent(priceKey(symbol))) =>
            /\ lastCall'.via = "network"
            /\ \E c \in inflight' \ inflight : c.id = nextId /\ c.symbol = symbol
            /\ inflight \subseteq inflight'

\* A price call of the id completes with a quote right after another price
\* call of the id did: the two were in flight together.
SecondCompletes ==
    /\ lastDone.kind = "price" /\ lastDone.resp = "ok"
    /\ lastDone'.kind = "price" /\ lastDone'.resp = "ok"
    /\ lastDone'.symbol = lastDone.symbol
    /\ lastDone'.id # lastDone.id

LastEntry == [data |-> lastDone'.settled.value, timestamp |-> lastDone'.t]

\* C24 as stated: overlapping price calls for one id that start while
\* neither store has a fresh entry each issue a request, and once both
\* have completed with a quote both stores hold the entry of the call that
\* completed last.
C24_LaterWriteWinsBoth ==
    [][/\ OwnRequest
       /\ SecondCompletes =>
              /\ cache'[lastDone'.symbol] = Entry(LastEntry.data, LastEntry.timestamp)
              /\ localStorage'[priceKey(lastDone'.symbol)] = JSONstringify(LastEntry)]_vars

\* C24, amended: as above, but the persistent store holds the entry of the
\* call that completed last when that call's write to it went through,
\* and is left as it was when the write failed.
C24_LaterWriteWins ==
    [][/\ OwnRequest
       /\ SecondCompletes =>
              /\ cache'[lastDone'.symbol] = Entry(LastEntry.data, LastEntry.timestamp)
              /\ localStorage'[priceKey(lastDone'.symbol)] =
                     IF storageMode = "ok" THEN JSONstringify(LastEntry)
                     ELSE localStorage[priceKey(lastDone'.symbol)]]_vars

\* Two calls were in flight together; the one that started first completed
\* last, with another quote, and its entry replaced the other's in both
\* stores.
C24_Witness ==
    /\ lastDone.kind = "price" /\ lastDone.resp = "ok"
    /\ lastDone.memBefore.kind = "entry"
    /\ lastDone.memBefore.timestamp > lastDone.t
    /\ lastDone.memBefore.data # lastDone.settled.value
    /\ cache[lastDone.symbol] = Entry(lastDone.settled.value, lastDone.t)
    /\ localStorage[priceKey(lastDone.symbol)]
           = JSONstringify([data |-> lastDone.settled.value, timestamp |-> lastDone.t])
    /\ inflight = {}

\* The persistent entry under the key was captured no later than the
\* transient entry, and at most 5 minutes before it.
LagsWithinTTL(entry, key) ==
    (entry.kind = "entry" /\ localStorage[key].kind = "json") =>
        /\ JSONparse(localStorage[key]).timestamp <= entry.timestamp
        /\ entry.timestamp - JSONparse(localStorage[key]).timestamp <= CACHE_DURATION

\* C25: for every key, whenever both stores hold an entry for it, the
\* persistent entry's capture time is older than the transient entry's by
\* at most 5 minutes.
C25_PersistentLag ==
    \A symbol \in Symbols :
        /\ LagsWithinTTL(cache[symbol], priceKey(symbol))
        /\ LagsWithinTTL(historicalCache[symbol], historyKey(symbol))

----------------------------------------------------------------------------
(* Properties of the default comparison of the table *)

\* The text a row shows in the sort column.
SortText(row) == StringOf(CellAt(row, sortColumn))

\* 1 when the rows are sorted ascending, -1 when descending.
DirectionSign == IF sortDirection = "asc" THEN 1 ELSE 0 - 1

\* C26: in a column without a comparator of its own the way of comparing
\* is chosen for the column as a whole: when every cell of the rows
\* computed is numeric they are in numeric order, and when some cell is
\* not numeric they are all in text order, the numeric cells among
\* themselves included.
C26_PerColumn ==
    (queried.phase = "rendered" /\ ~Unsorted /\ ~HasComparator) =>
        LET result == queried.result
            numeric == \A i \in 1..Len(result) : Coerces(result[i])
        IN \A i, j \in 1..Len(result) :
               i < j =>
                   IF numeric
                   THEN DirectionSign * (Number(SortText(result[i])).n
                                         - Number(SortText(result[j])).n) <= 0
                   ELSE DirectionSign * localeCompare(SortText(result[i]),
                                                      SortText(result[j])) <= 0

----------------------------------------------------------------------------
(* Properties of the rollup of a security *)

\* A text with its sign turned: a leading minus removed or added.
FlipSign(str) ==
    LET text == trim(str)
    IN IF text # <<>> /\ Head(text) = "-" THEN Tail(text) ELSE <<"-">> \o text

\* The rows with the sign of every quantity and fee turned.
FlippedRows ==
    [i \in 1..Len(rows) |->
        [rows[i] EXCEPT !.quantity = FlipSign(@), !.fee = FlipSign(@)]] \o <<>>

\* The sum over the rows of the ledger of what each row adds.
TotalOfRows(Term(_)) == SumSeq([i \in 1..Len(rows) |-> Term(i)] \o <<>>)

\* C27: for every security of the stocks table, the rollup's fees are the
\* sum of the absolute fees of the rows with its id, its dividends and
\* taxes the sums of the absolute amounts of the dividend and tax rows
\* named after it, none of them negative and all three the same when every
\* sign in the rows is turned, and its quantity is the sum of the signed
\* quantities of its buy and benefit rows minus those of its sell rows.
C27_RollupTotals ==
    \A k \in 1..Len(screen.stocks) :
        LET stock == screen.stocks[k]
            symbol == stock.TICKER
            Own(i) == trim(rows[i].ticker) = symbol
            Named(i) == includes(trim(rows[i].name), symbol)
            Action(i) == trim(rows[i].action)
            flipped == rollup(FlippedRows, symbol)
        IN /\ stock.rawFees =
                  TotalOfRows(LAMBDA i : IF Own(i) THEN abs(parseFloatOr0(rows[i].fee)) ELSE 0)
           /\ stock.rawDividends =
                  TotalOfRows(LAMBDA i : IF Action(i) = <<"dividend">> /\ Named(i)
                                         THEN abs(parseFloatOr0(rows[i].quantity)) ELSE 0)
           /\ stock.rawTaxes =
                  TotalOfRows(LAMBDA i : IF Action(i) = <<"tax">> /\ Named(i)
                                         THEN abs(parseFloatOr0(rows[i].quantity)) ELSE 0)
           /\ stock.rawFees >= 0 /\ stock.rawDividends >= 0 /\ stock.rawTaxes >= 0
           /\ flipped.rawFees = stock.rawFees
           /\ flipped.rawDividends = stock.rawDividends
           /\ flipped.rawTaxes = stock.rawTaxes
           /\ stock.rawQuantity =
                  TotalOfRows(LAMBDA i : IF Own(i) /\ Action(i) \in {<<"buy">>, <<"benefit">>}
                                         THEN parseFloatOr0(rows[i].quantity) ELSE 0)
                  - TotalOfRows(LAMBDA i : IF Own(i) /\ Action(i) = <<"sell">>
                                           THEN parseFloatOr0(rows[i].quantity) ELSE 0)

\* A security is shown whose rows hold a fee and a tax recorded as
\* negative, a dividend, and a buy of 10 and a sell of 3: the fees are 3,
\* the taxes 1, the dividends 5 and the quantity 7, in thousandths.
C27_Witness ==
    /\ \E i, j \in 1..Len(rows) :
           /\ parseFloatOr0(rows[i].fee) < 0
           /\ trim(rows[j].action) = <<"tax">> /\ parseFloatOr0(rows[j].quantity) < 0
    /\ \E k \in 1..Len(screen.stocks) :
           /\ screen.stocks[k].TICKER = TickerAB
           /\ screen.stocks[k].rawFees = 3000
           /\ screen.stocks[k].rawTaxes = 1000
           /\ screen.stocks[k].rawDividends = 5000
           /\ screen.stocks[k].rawQuantity = 7000

----------------------------------------------------------------------------
(* Properties of the sort state *)

----------------------------------------------------------------------------
(* Properties of the comparison as an ordering *)

\* The ascending comparison of two rows on the sort column.
DefaultOrder(a, b) == compare(SortContext(columns, sortColumn, "asc"), a, b)

Sign(n) == IF n < 0 THEN 0 - 1 ELSE IF n > 0 THEN 1 ELSE 0

\* C29: on a column without a comparator of its own the comparison the
\* sort has used orders the cells consistently: comparing two rows one way
\* round and the other gives opposite signs, and a row not after a second
\* that is not after a third is not after the third, whatever mix of
\* numbers, empty cells and other texts the column holds.
C29_ConsistentOrdering ==
    (queried.phase = "rendered" /\ ~Unsorted /\ ~HasComparator) =>
        \A i, j, k \in 1..Len(tableData) :
            LET a == tableData[i]
                b == tableData[j]
                c == tableData[k]
            IN /\ Sign(DefaultOrder(a, b)) = 0 - Sign(DefaultOrder(b, a))
               /\ (DefaultOrder(a, b) <= 0 /\ DefaultOrder(b, c) <= 0) => DefaultOrder(a, c) <= 0

----------------------------------------------------------------------------
(* Properties across the views *)

\* C30: while a security of the stocks table is selected, the totals of
\* its dividend history in the detail view, dividend and tax, are the
\* dividends and the taxes of its rollup in the stocks table.
C30_DividendsAgree ==
    selectedTicker.selected =>
        \A k \in 1..Len(screen.stocks) :
            screen.stocks[k].TICKER = selectedTicker.ticker =>
                /\ screen.totals.dividend = screen.stocks[k].rawDividends
                /\ screen.totals.tax = screen.stocks[k].rawTaxes

====
